---- MODULE Spec2Model ----
(***************************************************************************)
(* The memory-redis plugin: RedisMemoryDB (lazy connection, index          *)
(* lifecycle, store / search / textSearch / delete / count / disconnect),  *)
(* Embeddings (lazy provider initialisation, dimension callback), the      *)
(* memory_store tool, the agent_end capture hook and the CLI commands.     *)
(*                                                                         *)
(* Specifications: Spec, the tools, hooks and commands called concurrently;*)
(* SpecRecall, the before_agent_start hook among memory_store calls and    *)
(* the stop of the service; SpecStore, the methods of one RedisMemoryDB    *)
(* called one after the other; SpecScore, the conversion of a distance to  *)
(* a score; SpecHybrid, the merge of the two result lists of a hybrid      *)
(* search; SpecCapture, the agent_end hook over turns of messages;         *)
(* SpecTools, the three tools called one at a time; SpecFilter,            *)
(* shouldCapture and detectCategory on texts made of pieces; SpecConfig,   *)
(* register() on a configuration; SpecContext, the before_agent_start hook *)
(* over entries written with db.store; SpecTurns, turns whose agent_end    *)
(* event holds what before_agent_start injected; SpecGateways, the store   *)
(* of this gateway beside the initialization of another gateway's store    *)
(* with the same index; SpecCollections, this store beside stores with     *)
(* other key prefixes; SpecSequential, the write paths called one after    *)
(* the other; SpecHooks, the hooks when every pending I/O ends.            *)
(*                                                                         *)
(* JavaScript runs one callback at a time; an async function is suspended  *)
(* only at an await.  Every action below is the code between two awaits of *)
(* one call (a task), or the completion of one pending I/O request.        *)
(*                                                                         *)
(* Environment (not code of the repository):                               *)
(*  - the redis client: isOpen is true from connect() until the connect    *)
(*    fails or quit() is called; a command issued while the socket is      *)
(*    still connecting is queued and runs once the client is ready; quit() *)
(*    lets the commands already sent finish; a command issued on a client  *)
(*    that is not open is rejected;                                        *)
(*  - the engine: JSON documents by key, one named index; FT.INFO and the  *)
(*    searches fail while the index is absent, FT.CREATE fails when the    *)
(*    index exists; KNN ranks the documents under the prefix exactly, ties *)
(*    in any order; a document is stored and ranked whatever the length of *)
(*    its vector (dimensions are compared in the properties, not by the    *)
(*    engine); numDocs of FT.INFO is a number, the count of the documents  *)
(*    under the prefix; an index created with PREFIX [p] holds every key   *)
(*    that starts with the string p;                                       *)
(*  - the embedding provider: embedQuery(text) is deterministic and gives  *)
(*    a vector of the provider's dimension; provider creation and          *)
(*    embedQuery may fail.                                                 *)
(* Scores and distances are integers: a distance d stands for d/100, a     *)
(* score s for s/200, so that score = 1 - distance/2 is s = 200 - d.       *)
(***************************************************************************)
EXTENDS Integers, Sequences, FiniteSets, TLC

\* ------------------------------------------------------------------ bounds
\* Number of tool / hook / CLI calls started in one behaviour.
MaxCalls == 3
\* Number of I/O requests the environment may fail in one behaviour.
MaxFaults == 1
\* Number of calls made on the store API in one behaviour of SpecStore.
MaxApiCalls == 5
\* Number of documents the other collections store in one behaviour.
MaxPeerDocs == 1
\* Number of calls made on the store API in one behaviour of SpecCollections.
MaxCollectionCalls == 2

\* ------------------------------------------------------- program constants
DEFAULT_VECTOR_DIM == 1536
\* Thresholds, in score units (1/200).
DupMinScore == 190
\* importance 0.7 in tenths.
DefaultImportance == 7
\* toCapture.slice(0, 3)
CaptureCap == 3

KeyPrefix == "openclaw:memory"
ProviderTag == "openai/text-embedding-3-small"

Procs == {1, 2}
NoIndex == 0
\* Dimension the configured provider's vectors have.
ProviderDims == {768}
\* An index left in the engine by an earlier run of the gateway.
InitialIndexes == {NoIndex, 1536}

\* ------------------------------------------------------------------- texts
TA == "I prefer dark mode themes for all my apps"
TB == "I prefer dark mode themes for all my apps."
TC == "My email is a@b.com"
TS == "ok thanks"
TD == "Remember that my name is John"
\* Queries of the tools.
TW == "dark"
TQ == "my preferences and my contact"
TR == "my email address"
\* A prompt far from every memory.
TP == "What time is it?"
Texts == {TA, TB, TC}
\* The texts given to memory_store.
StoreTexts == {TA, TC}

\* Cosine distance (in 1/100) between the provider's embeddings of two texts.
TextDistance(t, u) ==
    IF t = u THEN 0
    ELSE IF {t, u} = {TA, TB} THEN 4
    ELSE IF {t, u} = {TR, TC} THEN 20
    ELSE IF {t, u} \in {{TQ, TA}, {TQ, TB}} THEN 30
    ELSE IF {t, u} = {TQ, TC} THEN 50
    ELSE IF TP \in {t, u} THEN 160
    ELSE 120

\* Pieces that texts are made of, besides the texts above: no test of the
\* filter matches across the border of two of them.
WD == "We decided it. "
WF == "The sky is blue"
WR == "Remember it. "
WE == "a@b.com"
WH == "hi"
WO == "ok "
WM == "<relevant-memories>"
WG == "<b>"
WK == "</b>"
WB == "**"
WN == "\n-"
\* One code point of the range U+1F300..U+1F9FF (two UTF-16 units), three of
\* them, and the one code point U+2B50, a star outside the range.
W1 == "U+1F389"
W3 == "U+1F389 U+1F38A U+1F38B"
WS == "U+2B50"
\* 459 letters x.
WX == "x{459}"
\* The pieces of the context before_agent_start returns: MEMORY_SYSTEM_PROMPT,
\* the blank line after it, the sentence that follows <relevant-memories>,
\* and the closing line.
WP == "MEMORY_SYSTEM_PROMPT"
WJ == "\n\n"
WL == "\nThe following memories may be relevant to this conversation:"
WC == "\n</relevant-memories>"
\* ` [${r.entry.category}]${r.entry.role ? ` (${r.entry.role})` : ""} ` of a
\* line of memoryContext, after its "\n-".
LineTag(category, role) ==
    " [" \o category \o "]" \o (IF role = "none" THEN "" ELSE " (" \o role \o ")") \o " "
LineTags ==
    { LineTag(c, r) : c \in {"preference", "fact", "decision", "entity", "other"},
                      r \in {"user", "assistant", "none"} }

\* The indices of the patterns in MEMORY_TRIGGERS.
MEMORY_TRIGGERS == 1..9

\* A piece of n UTF-16 units that no test of the filter matches.
Plain(n) ==
    [len |-> n, relmem |-> FALSE, startsLt |-> FALSE, closeTag |-> FALSE, bold |-> FALSE,
     nlDash |-> FALSE, emoji |-> 0, triggers |-> {}, pref |-> FALSE, dec |-> FALSE,
     ent |-> FALSE, cop |-> FALSE]

\* What the tests of shouldCapture and detectCategory observe of a piece w:
\* its length, includes("<relevant-memories>"), startsWith("<"),
\* includes("</"), includes("**"), includes("\n-"), the number of matches of
\* /[\u{1F300}-\u{1F9FF}]/gu, the patterns of MEMORY_TRIGGERS that match, and
\* the four tests of detectCategory.
PieceFacts(w) ==
    CASE w = TA -> [Plain(41) EXCEPT !.triggers = {2, 8}, !.pref = TRUE]
      [] w = TB -> [Plain(42) EXCEPT !.triggers = {2, 8}, !.pref = TRUE]
      [] w = TC -> [Plain(19) EXCEPT !.triggers = {5, 7}, !.ent = TRUE, !.cop = TRUE]
      [] w = TD -> [Plain(29) EXCEPT !.triggers = {1, 7}, !.cop = TRUE]
      [] w = TS -> Plain(9)
      [] w = TW -> Plain(4)
      [] w = TQ -> [Plain(29) EXCEPT !.triggers = {2}, !.pref = TRUE]
      [] w = TR -> Plain(16)
      [] w = TP -> [Plain(16) EXCEPT !.cop = TRUE]
      [] w = WD -> [Plain(15) EXCEPT !.dec = TRUE]
      [] w = WF -> [Plain(15) EXCEPT !.cop = TRUE]
      [] w = WR -> [Plain(13) EXCEPT !.triggers = {1}]
      [] w = WE -> [Plain(7) EXCEPT !.triggers = {5}, !.ent = TRUE]
      [] w = WH -> Plain(2)
      [] w = WO -> Plain(3)
      [] w = WM -> [Plain(19) EXCEPT !.relmem = TRUE, !.startsLt = TRUE]
      [] w = WG -> [Plain(3) EXCEPT !.startsLt = TRUE]
      [] w = WK -> [Plain(4) EXCEPT !.startsLt = TRUE, !.closeTag = TRUE]
      [] w = WB -> [Plain(2) EXCEPT !.bold = TRUE]
      [] w = WN -> [Plain(2) EXCEPT !.nlDash = TRUE]
      [] w = W1 -> [Plain(2) EXCEPT !.emoji = 1]
      [] w = W3 -> [Plain(6) EXCEPT !.emoji = 3]
      [] w = WS -> Plain(1)
      [] w = WX -> Plain(459)
      [] w = WP -> [Plain(694) EXCEPT !.bold = TRUE, !.nlDash = TRUE, !.triggers = {1, 2, 9},
                                      !.pref = TRUE, !.cop = TRUE]
      [] w = WJ -> Plain(2)
      [] w = WL -> [Plain(61) EXCEPT !.cop = TRUE]
      [] w = WC -> [Plain(21) EXCEPT !.closeTag = TRUE]
      [] w \in LineTags ->
           LET cr == CHOOSE cr \in {"preference", "fact", "decision", "entity", "other"}
                                     \X {"user", "assistant", "none"} :
                        LineTag(cr[1], cr[2]) = w
           IN [Plain(Len(w)) EXCEPT !.triggers = IF cr[1] = "preference" THEN {2} ELSE {},
                                    !.pref = (cr[1] = "preference"),
                                    !.cop = (cr[1] = "decision" \/ cr[2] = "assistant")]

RECURSIVE SumOver(_, _)
SumOver(ws, field) ==
    IF ws = <<>> THEN 0
    ELSE (IF field = "len" THEN PieceFacts(Head(ws)).len ELSE PieceFacts(Head(ws)).emoji)
         + SumOver(Tail(ws), field)

\* What the tests observe of the text made of the pieces ws.
TextFacts(ws) ==
    LET F(i) == PieceFacts(ws[i])
        I == 1..Len(ws)
    IN [len      |-> SumOver(ws, "len"),
        relmem   |-> \E i \in I : F(i).relmem,
        startsLt |-> ws # <<>> /\ F(1).startsLt,
        closeTag |-> \E i \in I : F(i).closeTag,
        bold     |-> \E i \in I : F(i).bold,
        nlDash   |-> \E i \in I : F(i).nlDash,
        emoji    |-> SumOver(ws, "emoji"),
        triggers |-> UNION {F(i).triggers : i \in I},
        pref     |-> \E i \in I : F(i).pref,
        dec      |-> \E i \in I : F(i).dec,
        ent      |-> \E i \in I : F(i).ent,
        cop      |-> \E i \in I : F(i).cop]

\* shouldCapture with the length limits exclusive.
shouldCapture_ExclusiveLimits(ws) ==
    LET f == TextFacts(ws) IN
    IF f.len <= 10 \/ f.len >= 500 THEN FALSE
    ELSE IF f.relmem THEN FALSE
    ELSE IF f.startsLt /\ f.closeTag THEN FALSE
    ELSE IF f.bold /\ f.nlDash THEN FALSE
    ELSE IF f.emoji > 3 THEN FALSE
    ELSE \E r \in MEMORY_TRIGGERS : r \in f.triggers

\* shouldCapture without the test of "<relevant-memories>".
shouldCapture_NoRecallTest(ws) ==
    LET f == TextFacts(ws) IN
    IF f.len < 10 \/ f.len > 500 THEN FALSE
    ELSE IF f.startsLt /\ f.closeTag THEN FALSE
    ELSE IF f.bold /\ f.nlDash THEN FALSE
    ELSE IF f.emoji > 3 THEN FALSE
    ELSE \E r \in MEMORY_TRIGGERS : r \in f.triggers

shouldCapture(ws) ==
    LET f == TextFacts(ws) IN
    IF f.len < 10 \/ f.len > 500 THEN FALSE
    ELSE IF f.relmem THEN FALSE
    ELSE IF f.startsLt /\ f.closeTag THEN FALSE
    ELSE IF f.bold /\ f.nlDash THEN FALSE
    ELSE IF f.emoji > 3 THEN FALSE
    ELSE \E r \in MEMORY_TRIGGERS : r \in f.triggers

\* detectCategory testing the copula before the entity patterns.
detectCategory_CopulaFirst(ws) ==
    LET f == TextFacts(ws) IN
    IF f.pref THEN "preference"
    ELSE IF f.dec THEN "decision"
    ELSE IF f.cop THEN "fact"
    ELSE IF f.ent THEN "entity"
    ELSE "other"

detectCategory(ws) ==
    LET f == TextFacts(ws) IN
    IF f.pref THEN "preference"
    ELSE IF f.dec THEN "decision"
    ELSE IF f.ent THEN "entity"
    ELSE IF f.cop THEN "fact"
    ELSE "other"

\* ----------------------------------------------------- the injected context
\* The string made of the pieces ws.
RECURSIVE Join(_)
Join(ws) == IF ws = <<>> THEN "" ELSE Head(ws) \o Join(Tail(ws))

\* memoryContext: one line `- [category] (role) text` for each result, the
\* lines joined by "\n".
RECURSIVE memoryContext(_)
memoryContext(results) ==
    IF results = <<>> THEN <<>>
    ELSE <<WN, LineTag(Head(results).category, Head(results).role), Head(results).text>>
         \o memoryContext(Tail(results))

\* prependContext of before_agent_start for the entries of the results of
\* db.search: MEMORY_SYSTEM_PROMPT alone when there is none.
prependContext(entries) ==
    IF entries = <<>> THEN <<WP>>
    ELSE <<WP, WJ, WM, WL>> \o memoryContext(entries) \o <<WC>>

\* The entries the hooks of a conversation can find: what agent_end stores of
\* the prompts of the user and of the answer of the assistant.
RecalledEntries ==
    { [text |-> TA, category |-> detectCategory(<<TA>>), role |-> "user"],
      [text |-> TC, category |-> detectCategory(<<TC>>), role |-> "user"],
      [text |-> TB, category |-> detectCategory(<<TB>>), role |-> "assistant"] }
\* The results of db.search(vector, 3, 0.3), reduced to what a line shows:
\* agent_end stores neither a text twice nor TA beside its near duplicate TB.
RecalledLists ==
    {<<>>} \cup { <<a>> : a \in RecalledEntries }
           \cup { l \in { <<a, b>> : a, b \in RecalledEntries } :
                    l[1].text # l[2].text /\ {l[1].text, l[2].text} # {TA, TB} }
\* The texts of more than one piece: a context, a context followed by a blank
\* line and the prompt, and a remark that quotes the delimiter.
ComposedOf ==
    { prependContext(l) : l \in RecalledLists }
      \cup { prependContext(l) \o <<WJ, t>> : l \in RecalledLists, t \in {TA, TC} }
      \cup { <<WR, WM>> }
\* The texts of one piece.
Atoms ==
    {TA, TB, TC, TD, TS, TW, TQ, TR, TP, WD, WF, WR, WE, WH, WO, WM, WG, WK, WB, WN, W1, W3, WS,
     WX, WP, WJ, WL, WC}

\* The pieces of a text of the turns and of the tools.
Whole(t) ==
    IF t \in Atoms THEN <<t>>
    ELSE CHOOSE ws \in ComposedOf : Join(ws) = t

\* --------------------------------------------------------------------- ids
\* randomUUID(): the n-th UUID drawn.  NotAUuid fails the shape test of delete.
Uuid(n) == <<"uuid", n>>
UnknownUuid == <<"uuid", 0>>
NotAUuid == <<"not-a-uuid", 0>>
\* A memoryId that is not given (undefined).
NoId == <<"undefined", 0>>
\* The parameters of a tool call that has none of memory_forget's.
NoParams == [memoryId |-> NoId, query |-> ""]
\* uuidRegex.test that lets every id through.
uuidRegexTest_AcceptsAll(id) == TRUE

uuidRegexTest(id) == id[1] = "uuid"
Key(id) == <<KeyPrefix, id>>

\* The key prefixes of other collections on the same Redis, each with an index
\* of its own: one that continues KeyPrefix, one that KeyPrefix continues, and
\* one that shares nothing with it.
OtherPrefixes == {"openclaw:memory:test", "openclaw:mem", "acme:notes"}

\* What can follow one of the prefixes inside a key or inside another prefix.
Rests == {"", ":", "ory", "ory:", ":test", ":test:", "test", "test:"}

\* s.startsWith(p)
StartsWith(s, p) == \E r \in Rests : p \o r = s

\* The engine's PREFIX rule: an index created with PREFIX [p] holds the keys
\* that start with p.  The key is `${keyPrefix}:${id}`; no id, made of
\* hexadecimal digits and dashes, starts with what a prefix here has after
\* "openclaw:memory:".
UnderPrefix(key, p) == StartsWith(key[1] \o ":", p)

\* ----------------------------------------------------------------- vectors
\* The provider's vector for text t: dim numbers.  [] is EmptyVector.
Vector(t, dim) == [of |-> t, dim |-> dim]
EmptyVector == [of |-> "", dim |-> 0]
NoEntry == [id |-> UnknownUuid, text |-> "", vector |-> EmptyVector, importance |-> 0,
            category |-> "other", role |-> "none", embeddingModel |-> "", createdAt |-> 0]

\* ------------------------------------------------------------------- turns
Msg(r, t) == [role |-> r, text |-> t]
\* agent_end events.
Turns ==
    { [success |-> TRUE,
       messages |-> <<Msg("system", TC), Msg("user", TA), Msg("user", TS), Msg("assistant", TB)>>],
      [success |-> FALSE, messages |-> <<Msg("user", TA)>>] }

VARIABLES
    \* RedisMemoryDB fields
    client,        \* 0 (null) or the number of the client object
    initPromise,   \* 0 (null) or the number of the doInitialize() promise
    indexCreated,
    vectorDim,
    \* every client createClient() returned: "connecting" | "ready" | "failed" (the
    \* connect was rejected) | "quit" (quit() on a ready client) | "aborted" (quit()
    \* on a connecting client)
    clients,
    \* every doInitialize() promise: [stage, cl, dim]
    inits,
    \* the engine
    engineIndex,   \* NoIndex or the DIM of the index
    docs,          \* key -> JSON document
    createIssued,  \* number of FT.CREATE commands issued
    \* randomUUID and Date.now
    nextUuid,
    now,
    \* Embeddings fields and its environment
    provider,      \* FALSE (null) or TRUE
    embInit,       \* "none" | "creating" | "testing" | "resolved" | "rejected"
    createCalls,   \* createEmbeddingProvider invocations
    dimCalls,      \* onDimensionKnown invocations
    providerDim,
    \* the calls in flight
    task,
    calls,         \* calls started
    disconnects,   \* disconnect() calls started
    \* a pure function under evaluation: [fn, arg, ret]
    pure,
    \* the initialization of another gateway's RedisMemoryDB on the same
    \* Redis: [stage, indexCreated]
    peer,
    faults         \* I/O failures injected

vars == <<client, initPromise, indexCreated, vectorDim, clients, inits, engineIndex, docs,
          createIssued, nextUuid, now, provider, embInit, createCalls, dimCalls, providerDim,
          task, calls, disconnects, pure, peer, faults>>

dbVars == <<client, initPromise, indexCreated, vectorDim, clients, inits>>
engineVars == <<engineIndex, docs, createIssued>>
embVars == <<provider, embInit, createCalls, dimCalls, providerDim>>
\* Everything but the pure function under evaluation.
progVars ==
    <<dbVars, engineVars, embVars, nextUuid, now, task, calls, disconnects, peer, faults>>

\* ------------------------------------------------------------------- tasks
\* No other gateway is initializing.
NoPeer == [stage |-> "none", indexCreated |-> FALSE]

\* No pure function is under evaluation.
NoCall == [fn |-> "none", arg |-> <<>>, ret |-> <<>>]

IdleTask ==
    [kind |-> "idle", pc |-> "idle", text |-> "", role |-> "none", id |-> UnknownUuid,
     items |-> <<>>, vec |-> EmptyVector, dbop |-> "none", limit |-> 0, minScore |-> 0,
     ent |-> NoEntry, wait |-> 0, cl |-> 0, t0 |-> 0, res |-> <<>>, out |-> "", err |-> "",
     outId |-> UnknownUuid, stored |-> 0, num |-> 0, solo |-> TRUE, ts |-> 0,
     auto |-> TRUE, ev |-> [success |-> FALSE, messages |-> <<>>], mode |-> "", parent |-> 0,
     params |-> NoParams, issued |-> [embed |-> 0, search |-> 0, store |-> 0],
     s0 |-> [client |-> 0, initPromise |-> 0, clients |-> 0, faults |-> 0, disconnects |-> 0]]

Running(q) == task[q].pc \notin {"idle", "done"}

isOpen(c) == clients[c] \in {"connecting", "ready"}

getProviderInfo == IF provider THEN ProviderTag ELSE "initializing"

\* return / resolve of the outermost async function
Finish(tk, out, id) == [tk EXCEPT !.pc = "done", !.out = out, !.outId = id]

\* The hooks without their try/catch.
Throw_RecallRethrows(tk, e) ==
    IF tk.kind = "capture"
    THEN [tk EXCEPT !.pc = "done", !.out = "caught", !.err = e]
    ELSE [tk EXCEPT !.pc = "done", !.out = "error", !.err = e]

Throw_CaptureRethrows(tk, e) ==
    IF tk.kind = "recall"
    THEN [tk EXCEPT !.pc = "done", !.out = "guidance", !.err = e]
    ELSE [tk EXCEPT !.pc = "done", !.out = "error", !.err = e]

\* The tools with a catch that answers "nothing found".
Throw_ToolsSwallow(tk, e) ==
    IF tk.kind = "capture"
    THEN [tk EXCEPT !.pc = "done", !.out = "caught", !.err = e]
    ELSE IF tk.kind = "recall"
    THEN [tk EXCEPT !.pc = "done", !.out = "guidance", !.err = e]
    ELSE IF tk.kind \in {"memory_store", "memory_recall", "memory_forget"}
    THEN [tk EXCEPT !.pc = "done", !.out = "none", !.err = e]
    ELSE [tk EXCEPT !.pc = "done", !.out = "error", !.err = e]

\* A rejection travelling up to the tool, command or hook: the agent_end hook's
\* try/catch logs it and returns, that of before_agent_start logs it and
\* returns MEMORY_SYSTEM_PROMPT, the tools and commands reject.
Throw(tk, e) ==
    IF tk.kind = "capture"
    THEN [tk EXCEPT !.pc = "done", !.out = "caught", !.err = e]
    ELSE IF tk.kind = "recall"
    THEN [tk EXCEPT !.pc = "done", !.out = "guidance", !.err = e]
    ELSE [tk EXCEPT !.pc = "done", !.out = "error", !.err = e]

\* embeddings.embed(t)
CallEmbed(tk, t, r) ==
    [tk EXCEPT !.pc = "embed", !.text = t, !.role = r, !.issued.embed = @ + 1]

\* db.search(vector, limit, minScore) and the other store operations
CallSearch(tk, v, limit, minScore) ==
    [tk EXCEPT !.pc = "dbenter", !.dbop = "search", !.vec = v, !.limit = limit,
               !.minScore = minScore, !.issued.search = @ + 1]

\* ts: Date.now() when store() is called
CallStore(tk, e) ==
    [tk EXCEPT !.pc = "dbenter", !.dbop = "store", !.ent = e, !.ts = now,
               !.issued.store = @ + 1]

CallDb(tk, op) == [tk EXCEPT !.pc = "dbenter", !.dbop = op]

\* The capture loop: for (const item of toCapture.slice(0, 3))
NextItem(tk, items) ==
    IF items = <<>>
    THEN Finish([tk EXCEPT !.items = <<>>], "ok", UnknownUuid)
    ELSE CallEmbed([tk EXCEPT !.items = items], Head(items).text, Head(items).role)

\* The duplicate check finding identical vectors only: db.search(vector, 1, 1.0)
AfterEmbed_ExactOnly(tk, v) == CallSearch(tk, v, 1, 200)

\* await embeddings.embed(text) returned v
AfterEmbed(tk, v) == CallSearch(tk, v, 1, DupMinScore)

\* before_agent_start: db.search(vector, 3, 0.3)
AutoRecallLimit == 3
AutoRecallMinScore == 60
\* db.search(vector, limit, 0.1) of memory_recall, (vector, limit, 0.3) of the CLI
RecallMinScore == 20
CliMinScore == 60
\* memory_forget: db.search(vector, 5, 0.7), results[0].score > 0.9
ForgetLimit == 5
ForgetMinScore == 140
ForgetAutoScore == 180

\* await embeddings.embed(...) returned v to the caller of task tk
EmbedResolved(tk, v) ==
    IF tk.kind = "recall"
    THEN CallSearch(tk, v, AutoRecallLimit, AutoRecallMinScore)
    ELSE IF tk.kind = "memory_recall"
    THEN IF tk.mode = "hybrid"
         THEN [tk EXCEPT !.pc = "fork", !.vec = v]
         ELSE CallSearch(tk, v, tk.limit, RecallMinScore)
    ELSE IF tk.kind = "memory_forget"
    THEN CallSearch(tk, v, ForgetLimit, ForgetMinScore)
    ELSE AfterEmbed(tk, v)

\* memory_recall: the answer for the results of the chosen mode
RecallAnswer(tk, res) ==
    Finish([tk EXCEPT !.res = res], IF Len(res) = 0 THEN "none" ELSE "found", UnknownUuid)

\* memory_forget deleting a single result whose score is 0.9 or more.
ForgetFound_AtLeast(tk, res) ==
    IF Len(res) = 0
    THEN Finish([tk EXCEPT !.res = res], "none", UnknownUuid)
    ELSE IF Len(res) = 1 /\ res[1].score >= ForgetAutoScore
    THEN CallDb([tk EXCEPT !.res = res, !.id = res[1].entry.id], "delete")
    ELSE Finish([tk EXCEPT !.res = res], "candidates", UnknownUuid)

\* memory_forget with a query: await db.search(vector, 5, 0.7) returned res
ForgetFound(tk, res) ==
    IF Len(res) = 0
    THEN Finish([tk EXCEPT !.res = res], "none", UnknownUuid)
    ELSE IF Len(res) = 1 /\ res[1].score > ForgetAutoScore
    THEN CallDb([tk EXCEPT !.res = res, !.id = res[1].entry.id], "delete")
    ELSE Finish([tk EXCEPT !.res = res], "candidates", UnknownUuid)

\* await db.delete(id) returned to the caller of task tk: memory_forget
\* answers "deleted" whatever delete() returned.
DeleteReturned(tk, deleted) ==
    IF tk.kind = "memory_forget"
    THEN Finish([tk EXCEPT !.num = IF deleted THEN 1 ELSE 0], "deleted", tk.id)
    ELSE Finish(tk, IF deleted THEN "deleted" ELSE "not-found", tk.id)

\* await db.textSearch(...) returned res to the caller of task tk
TextSearchReturned(tk, res) ==
    IF tk.kind = "memory_recall"
    THEN RecallAnswer(tk, res)
    ELSE Finish([tk EXCEPT !.res = res], "found", UnknownUuid)

\* The hook adding the block whatever the search returned.
RecallContext_Always(tk, res) ==
    Finish([tk EXCEPT !.res = res], "guidance+memories", UnknownUuid)

\* before_agent_start: the context returned for the results of the search,
\* MEMORY_SYSTEM_PROMPT alone or followed by <relevant-memories>.
RecallContext(tk, res) ==
    IF Len(res) = 0
    THEN Finish([tk EXCEPT !.res = res], "guidance", UnknownUuid)
    ELSE Finish([tk EXCEPT !.res = res], "guidance+memories", UnknownUuid)

StoreRequest(tk) ==
    IF tk.kind = "capture"
    THEN [NoEntry EXCEPT !.text = tk.text, !.vector = tk.vec, !.importance = DefaultImportance,
                         !.category = detectCategory(Whole(tk.text)), !.role = tk.role,
                         !.embeddingModel = getProviderInfo]
    ELSE [NoEntry EXCEPT !.text = tk.text, !.vector = tk.vec, !.importance = DefaultImportance,
                         !.category = "other", !.role = "user",
                         !.embeddingModel = getProviderInfo]

\* AfterSearch without the test of existing.length.
AfterSearch_NoDuplicateCheck(tk, res) == CallStore([tk EXCEPT !.res = res], StoreRequest(tk))

\* await db.search(vector, 1, 0.95) returned res
AfterSearch(tk, res) ==
    IF Len(res) > 0
    THEN IF tk.kind = "capture"
         THEN NextItem([tk EXCEPT !.res = res], Tail(tk.items))
         ELSE Finish([tk EXCEPT !.res = res], "duplicate", res[1].entry.id)
    ELSE CallStore([tk EXCEPT !.res = res], StoreRequest(tk))

\* await db.search(...) returned res to the caller of task tk
SearchReturned(tk, res) ==
    IF tk.kind \in {"memory_store", "capture"}
    THEN AfterSearch(tk, res)
    ELSE IF tk.kind = "recall"
    THEN RecallContext(tk, res)
    ELSE IF tk.kind = "memory_recall"
    THEN IF tk.mode = "hybrid"
         THEN [tk EXCEPT !.res = res, !.pc = "join"]
         ELSE RecallAnswer(tk, res)
    ELSE IF tk.kind = "memory_forget"
    THEN ForgetFound(tk, res)
    ELSE Finish([tk EXCEPT !.res = res], "found", UnknownUuid)

\* await db.store(...) returned entry e
AfterStore(tk, e) ==
    IF tk.kind = "capture"
    THEN NextItem([tk EXCEPT !.ent = e, !.stored = tk.stored + 1], Tail(tk.items))
    ELSE Finish([tk EXCEPT !.ent = e], "created", e.id)

\* ------------------------------------------------------------------ engine
DistanceUnit == 200
\* const score = 1 - distance / 2
ScoreOf(distance) == DistanceUnit - distance

DocDistance(v, k) == TextDistance(v.of, docs[k].vector.of)

\* scoreVal: typeof data.score === "number" ? data.score
\*           : typeof data.score === "string" ? parseFloat(data.score) : 0
scoreVal(raw) == IF raw.type \in {"number", "string"} THEN raw.v ELSE 0

\* score = distance / 2, the subtraction from 1 left out.
ScoreOfRaw_NotInverted(raw) == scoreVal(raw)

\* const distance = scoreVal; const score = 1 - distance / 2
ScoreOfRaw(raw) == ScoreOf(scoreVal(raw))

\* The documents the index created with PREFIX [p] holds.
IndexedUnder(p) == {k \in DOMAIN docs : UnderPrefix(k, p)}

\* PREFIX: [this.keyPrefix]
Indexed == IndexedUnder(KeyPrefix)

\* FT.SEARCH "*=>[KNN limit @vector $BLOB AS score]" SORTBY score ASC: the
\* limit nearest documents, nearest first.
Rankings(v, limit) ==
    LET keys == Indexed
        n == IF Cardinality(keys) < limit THEN Cardinality(keys) ELSE limit
    IN { r \in [1..n -> keys] :
           /\ \A i, j \in 1..n : i < j =>
                 r[i] # r[j] /\ DocDistance(v, r[i]) <= DocDistance(v, r[j])
           /\ \A k \in keys : (\A i \in 1..n : r[i] # k) =>
                 \A i \in 1..n : DocDistance(v, r[i]) <= DocDistance(v, k) }

\* The loop of search over results.documents.
SearchHit(v, k) ==
    [entry |-> [docs[k] EXCEPT !.vector = EmptyVector],
     score |-> ScoreOfRaw([type |-> "string", v |-> DocDistance(v, k)])]

\* search() without `if (score >= minScore)`.
SearchResults_KeepsAll(v, r, minScore) ==
    [i \in 1..Len(r) |-> SearchHit(v, r[i])]

SearchResults(v, r, minScore) ==
    LET hits == [i \in 1..Len(r) |-> SearchHit(v, r[i])]
        Keep(h) == h.score >= minScore
    IN SelectSeq(hits, Keep)

\* FT.SEARCH "@text:<query>*" LIMIT 0 limit: the documents whose text holds a
\* word starting with the query.
TextMatches(q, t) == q \in {TW, TA} /\ t \in {TA, TB}

TextScore == 200

TextRankings(q, limit) ==
    LET keys == {k \in Indexed : TextMatches(q, docs[k].text)}
        n == IF Cardinality(keys) < limit THEN Cardinality(keys) ELSE limit
    IN { r \in [1..n -> keys] : \A i, j \in 1..n : i < j => r[i] # r[j] }

TextResults(r) ==
    [i \in 1..Len(r) |-> [entry |-> [docs[r[i]] EXCEPT !.vector = EmptyVector],
                          score |-> TextScore]]

\* JSON.SET that leaves the documents alone when one of similarity >= 0.95 to
\* value is stored (an atomic check-and-write).
JsonSet_UnlessNearDuplicate(key, value) ==
    IF \E k \in DOMAIN docs :
         ScoreOf(TextDistance(value.vector.of, docs[k].vector.of)) >= DupMinScore
    THEN docs
    ELSE (key :> value) @@ docs

\* JSON.SET key $ value
JsonSet(key, value) == (key :> value) @@ docs

\* DEL that removes every document.
Del_Everything(key) == <<>>

\* DEL key
Del(key) == [k \in DOMAIN docs \ {key} |-> docs[k]]

\* count() on a reply whose numDocs is not a number.
numDocs_NotANumber == 0

\* count(): info.numDocs of FT.INFO, a number: the documents under the prefix.
numDocs == Cardinality(Indexed)

\* What the engine answers to the command of task tk, and the documents after
\* it: the possible [tk, docs], tk being the task after the code that follows
\* the await, up to the next call of embed or of a store operation.
ExecOutcomes(tk) ==
    CASE tk.dbop = "store" ->
           { [tk |-> AfterStore(tk, tk.ent), docs |-> JsonSet(Key(tk.ent.id), tk.ent)] }
      [] tk.dbop = "search" ->
           IF engineIndex = NoIndex
           THEN { [tk |-> Throw(tk, "no-such-index"), docs |-> docs] }
           ELSE { [tk |-> SearchReturned(tk, SearchResults(tk.vec, r, tk.minScore)),
                   docs |-> docs] : r \in Rankings(tk.vec, tk.limit) }
      [] tk.dbop = "delete" ->
           { [tk |-> DeleteReturned(tk, Key(tk.id) \in DOMAIN docs),
              docs |-> Del(Key(tk.id))] }
      [] tk.dbop = "count" ->
           IF engineIndex = NoIndex
           THEN { [tk |-> Throw(tk, "no-such-index"), docs |-> docs] }
           ELSE { [tk |-> Finish([tk EXCEPT !.num = numDocs], "count",
                                 UnknownUuid),
                   docs |-> docs] }
      [] tk.dbop = "textSearch" ->
           IF engineIndex = NoIndex
           THEN { [tk |-> Throw(tk, "no-such-index"), docs |-> docs] }
           ELSE { [tk |-> TextSearchReturned(tk, TextResults(r)), docs |-> docs]
                  : r \in TextRankings(tk.text, tk.limit) }

\* ------------------------------------------------------------ RedisMemoryDB
\* store() that gives every entry the same id.
FullEntry_FixedId(tk) ==
    IF tk.dbop = "store"
    THEN [tk EXCEPT !.ent = [tk.ent EXCEPT !.id = Uuid(1), !.createdAt = now]]
    ELSE tk

\* store(): fullEntry = {...entry, id: randomUUID(), createdAt: Date.now()}
FullEntry(tk) ==
    IF tk.dbop = "store"
    THEN [tk EXCEPT !.ent = [tk.ent EXCEPT !.id = Uuid(nextUuid), !.createdAt = now]]
    ELSE tk

\* The body of a store operation after await this.ensureInitialized(), up to
\* its command on this.client.  T is the task table the step starts from.
Issued(tk) ==
    IF tk.dbop = "delete" /\ ~uuidRegexTest(tk.id)
    THEN Throw(tk, "invalid-id")
    ELSE IF client = 0
    THEN Throw(FullEntry(tk), "TypeError")
    ELSE IF ~isOpen(client)
    THEN Throw(FullEntry(tk), "client-closed")
    ELSE [FullEntry(tk) EXCEPT !.pc = "dbcmd", !.cl = client]

Issue(p, tk, T) ==
    /\ nextUuid' = IF tk.dbop = "store" THEN nextUuid + 1 ELSE nextUuid
    /\ task' = [T EXCEPT ![p] = Issued(tk)]

\* if (this.initPromise) that takes a rejected promise for none: a retry.
hasInitPromise_UnlessRejected ==
    initPromise # 0 /\ inits[initPromise].stage # "rejected"

\* if (this.initPromise), with the guard removed.
hasInitPromise_Never == FALSE

\* if (this.initPromise)
hasInitPromise == initPromise # 0

\* ensureInitialized() of RedisMemoryDB as called by task tk, and what follows
\* it without a pending await.
ensureInitialized(p, tk, T) ==
    IF client # 0 /\ isOpen(client)
    THEN /\ Issue(p, tk, T)
         /\ UNCHANGED <<client, initPromise, clients, inits>>
    ELSE IF hasInitPromise
    THEN /\ CASE inits[initPromise].stage = "resolved" -> Issue(p, tk, T)
              [] inits[initPromise].stage = "rejected" ->
                   /\ task' = [T EXCEPT ![p] = Throw(tk, "init-rejected")]
                   /\ UNCHANGED nextUuid
              [] OTHER ->
                   /\ task' = [T EXCEPT ![p] = [tk EXCEPT !.pc = "dbwait",
                                                          !.wait = initPromise]]
                   /\ UNCHANGED nextUuid
         /\ UNCHANGED <<client, initPromise, clients, inits>>
    ELSE \* doInitialize() up to await this.client.connect()
         /\ clients' = Append(clients, "connecting")
         /\ client' = Len(clients) + 1
         /\ inits' = Append(inits, [stage |-> "connecting", cl |-> Len(clients) + 1,
                                    dim |-> 0])
         /\ initPromise' = Len(inits) + 1
         /\ task' = [T EXCEPT ![p] = [tk EXCEPT !.pc = "dbwait", !.wait = Len(inits) + 1]]
         /\ UNCHANGED nextUuid

\* if (this.initPromise) of Embeddings, a rejected promise counting as none.
embHasInitPromise_UnlessRejected == embInit \notin {"none", "rejected"}

\* if (this.initPromise) of Embeddings
embHasInitPromise == embInit # "none"

\* ensureInitialized() of Embeddings as called by embed() of task tk.
embEnsureInitialized(p, tk, T) ==
    IF provider
    THEN /\ task' = [T EXCEPT ![p] = [tk EXCEPT !.pc = "embquery"]]
         /\ UNCHANGED <<embInit, createCalls>>
    ELSE IF embHasInitPromise
    THEN /\ task' = [T EXCEPT ![p] =
                       IF embInit = "rejected"
                       THEN Throw(tk, "embedding-init-rejected")
                       ELSE [tk EXCEPT !.pc = "embwait"]]
         /\ UNCHANGED <<embInit, createCalls>>
    ELSE \* doInitialize() up to await createEmbeddingProvider(...)
         /\ embInit' = "creating"
         /\ createCalls' = createCalls + 1
         /\ task' = [T EXCEPT ![p] = [tk EXCEPT !.pc = "embwait"]]

\* The slot that holds the second branch of a Promise.all of task p.
ChildSlot(p) == CHOOSE q \in Procs : q # p

\* memory_recall in hybrid mode: Promise.all([db.search(vector, limit, 0.1),
\* db.textSearch(query, limit)]).  Both are called before either runs on from
\* its await: search() first, so that textSearch() finds the client that
\* search() has just created; the branch of textSearch() is the task of the
\* child slot.
forkSearches(p, tk, T) ==
    LET q == ChildSlot(p)
        a == CallSearch(tk, tk.vec, tk.limit, RecallMinScore)
        b == CallDb([IdleTask EXCEPT !.kind = "hybrid-text", !.text = tk.text,
                                     !.limit = tk.limit, !.t0 = tk.t0, !.parent = p,
                                     !.solo = FALSE],
                    "textSearch")
    IN /\ IF client # 0 /\ isOpen(client)
          THEN /\ task' = [T EXCEPT ![p] = Issued(a), ![q] = Issued(b)]
               /\ UNCHANGED <<client, initPromise, clients, inits>>
          ELSE IF hasInitPromise
          THEN /\ task' =
                    CASE inits[initPromise].stage = "resolved" ->
                           [T EXCEPT ![p] = Issued(a), ![q] = Issued(b)]
                      [] inits[initPromise].stage = "rejected" ->
                           [T EXCEPT ![p] = Throw(a, "init-rejected"),
                                     ![q] = Throw(b, "init-rejected")]
                      [] OTHER ->
                           [T EXCEPT ![p] = [a EXCEPT !.pc = "dbwait", !.wait = initPromise],
                                     ![q] = [b EXCEPT !.pc = "dbwait", !.wait = initPromise]]
               /\ UNCHANGED <<client, initPromise, clients, inits>>
          ELSE /\ clients' = Append(clients, "connecting")
               /\ client' = Len(clients) + 1
               /\ inits' = Append(inits, [stage |-> "connecting", cl |-> Len(clients) + 1,
                                          dim |-> 0])
               /\ initPromise' = Len(inits) + 1
               /\ task' = [T EXCEPT ![p] = [a EXCEPT !.pc = "dbwait", !.wait = Len(inits) + 1],
                                    ![q] = [b EXCEPT !.pc = "dbcmd", !.cl = Len(clients) + 1]]
       /\ UNCHANGED nextUuid

\* The code of task p runs on from tk to its next pending await.
Settle(p, tk, T) ==
    IF tk.pc = "embed"
    THEN /\ embEnsureInitialized(p, tk, T)
         /\ UNCHANGED <<client, initPromise, clients, inits, nextUuid>>
    ELSE IF tk.pc = "dbenter"
    THEN /\ ensureInitialized(p, tk, T)
         /\ UNCHANGED <<embInit, createCalls>>
    ELSE IF tk.pc = "fork"
    THEN /\ forkSearches(p, tk, T)
         /\ UNCHANGED <<embInit, createCalls>>
    ELSE /\ task' = [T EXCEPT ![p] = tk]
         /\ UNCHANGED <<client, initPromise, clients, inits, nextUuid, embInit, createCalls>>

\* ensureIndex() up to its first await, run when connect() has resolved: the
\* issued FT.INFO, or the outcome when nothing can be issued.
\* [init, created]: the promise's record and the FT.CREATE calls made.
EnsureIndexBegin(i) ==
    IF indexCreated
    THEN [init |-> [inits[i] EXCEPT !.stage = "resolved"], created |-> 0]
    ELSE IF client = 0
    THEN [init |-> [inits[i] EXCEPT !.stage = "rejected"], created |-> 0]
    ELSE IF ~isOpen(client) /\ clients[client] # "aborted"
    THEN [init |-> [inits[i] EXCEPT !.stage = "rejected"], created |-> 1]
    ELSE [init |-> [inits[i] EXCEPT !.stage = "info", !.cl = client], created |-> 0]

\* await this.client.connect() settles
ConnectDone(i) ==
    /\ inits[i].stage = "connecting"
    /\ \/ /\ clients[inits[i].cl] \in {"connecting", "aborted"}
          /\ clients' = [clients EXCEPT ![inits[i].cl] =
                           IF @ = "connecting" THEN "ready" ELSE @]
          /\ inits' = [inits EXCEPT ![i] = EnsureIndexBegin(i).init]
          /\ createIssued' = createIssued + EnsureIndexBegin(i).created
          /\ UNCHANGED faults
       \/ /\ clients[inits[i].cl] = "aborted" \/ faults < MaxFaults
          /\ faults' = IF clients[inits[i].cl] = "aborted" THEN faults ELSE faults + 1
          /\ clients' = [clients EXCEPT ![inits[i].cl] =
                           IF @ = "connecting" THEN "failed" ELSE @]
          /\ inits' = [inits EXCEPT ![i].stage = "rejected"]
          /\ UNCHANGED createIssued
    /\ UNCHANGED <<client, initPromise, indexCreated, vectorDim, engineIndex, docs, embVars,
                   nextUuid, now, task, calls, disconnects, pure, peer>>

\* The catch of ensureIndex: this.client.ft.create(..., DIM: this.vectorDim)
CreateIssue(i) ==
    IF client = 0 \/ ~isOpen(client)
    THEN [inits[i] EXCEPT !.stage = "rejected"]
    ELSE [inits[i] EXCEPT !.stage = "creating", !.cl = client, !.dim = vectorDim]

\* A command sent on client c is answered by the engine (or is rejected).
Answered(c) == clients[c] \in {"ready", "quit"}
Rejected(c) == clients[c] \in {"failed", "aborted"}

\* ft.info taken to fail always: ensureIndex goes on to ft.create.
InfoSucceeds_Never(i) == FALSE

\* ft.info(indexName) resolves: the engine answers and has the index
InfoSucceeds(i) == Answered(inits[i].cl) /\ engineIndex # NoIndex

\* await this.client.ft.info(indexName) settles
InfoDone(i) ==
    /\ inits[i].stage = "info"
    /\ clients[inits[i].cl] # "connecting"
    /\ IF InfoSucceeds(i)
       THEN /\ indexCreated' = TRUE
            /\ inits' = [inits EXCEPT ![i].stage = "resolved"]
            /\ UNCHANGED createIssued
       ELSE /\ inits' = [inits EXCEPT ![i] = CreateIssue(i)]
            /\ createIssued' = IF client = 0 THEN createIssued ELSE createIssued + 1
            /\ UNCHANGED indexCreated
    /\ UNCHANGED <<client, initPromise, vectorDim, clients, engineIndex, docs, embVars,
                   nextUuid, now, task, calls, disconnects, pure, peer, faults>>

\* ensureIndex without `throw createErr`: a failed ft.create is only logged.
CreateDone_Swallows(i) ==
    /\ inits[i].stage = "creating"
    /\ clients[inits[i].cl] # "connecting"
    /\ \/ /\ Answered(inits[i].cl) /\ engineIndex = NoIndex
          /\ engineIndex' = inits[i].dim
          /\ indexCreated' = TRUE
          /\ inits' = [inits EXCEPT ![i].stage = "resolved"]
          /\ UNCHANGED faults
       \/ /\ Rejected(inits[i].cl) \/ engineIndex # NoIndex \/ faults < MaxFaults
          /\ faults' = IF Rejected(inits[i].cl) \/ engineIndex # NoIndex
                       THEN faults ELSE faults + 1
          /\ inits' = [inits EXCEPT ![i].stage = "resolved"]
          /\ UNCHANGED <<engineIndex, indexCreated>>
    /\ UNCHANGED <<client, initPromise, vectorDim, clients, docs, createIssued, embVars,
                   nextUuid, now, task, calls, disconnects, pure, peer>>

\* await this.client.ft.create(...) settles
CreateDone(i) ==
    /\ inits[i].stage = "creating"
    /\ clients[inits[i].cl] # "connecting"
    /\ \/ /\ Answered(inits[i].cl) /\ engineIndex = NoIndex
          /\ engineIndex' = inits[i].dim
          /\ indexCreated' = TRUE
          /\ inits' = [inits EXCEPT ![i].stage = "resolved"]
          /\ UNCHANGED faults
       \/ /\ Rejected(inits[i].cl) \/ engineIndex # NoIndex \/ faults < MaxFaults
          /\ faults' = IF Rejected(inits[i].cl) \/ engineIndex # NoIndex
                       THEN faults ELSE faults + 1
          /\ inits' = [inits EXCEPT ![i].stage = "rejected"]
          /\ UNCHANGED <<engineIndex, indexCreated>>
    /\ UNCHANGED <<client, initPromise, vectorDim, clients, docs, createIssued, embVars,
                   nextUuid, now, task, calls, disconnects, pure, peer>>

\* await this.ensureInitialized() on the pending initPromise settles
DbWait(p) ==
    /\ task[p].pc = "dbwait"
    /\ inits[task[p].wait].stage \in {"resolved", "rejected"}
    /\ IF inits[task[p].wait].stage = "resolved"
       THEN Issue(p, task[p], task)
       ELSE /\ task' = [task EXCEPT ![p] = Throw(task[p], "init-rejected")]
            /\ UNCHANGED nextUuid
    /\ UNCHANGED <<dbVars, engineVars, embVars, now, calls, disconnects, pure, peer, faults>>

\* The command of a store operation settles.
DbCmd(p) ==
    /\ task[p].pc = "dbcmd"
    /\ clients[task[p].cl] # "connecting"
    /\ IF Rejected(task[p].cl)
       THEN /\ Settle(p, Throw(task[p], "client-closed"), task)
            /\ UNCHANGED docs
       ELSE \E o \in ExecOutcomes(task[p]) :
              /\ docs' = o.docs
              /\ Settle(p, o.tk, task)
    /\ UNCHANGED <<indexCreated, vectorDim, engineIndex, createIssued, provider, dimCalls,
                   providerDim, now, calls, disconnects, pure, peer, faults>>

\* disconnect() that leaves this.initPromise as it is.
QuitDone_KeepsInitPromise(p) ==
    /\ task[p].pc = "quitting"
    /\ client' = 0
    /\ task' = [task EXCEPT ![p] = Finish(task[p], "disconnected", UnknownUuid)]
    /\ UNCHANGED <<initPromise, indexCreated, vectorDim, clients, inits, engineVars, embVars,
                   nextUuid, now, calls, disconnects, pure, peer, faults>>

\* disconnect(): await this.client.quit() settles
QuitDone(p) ==
    /\ task[p].pc = "quitting"
    /\ client' = 0
    /\ initPromise' = 0
    /\ task' = [task EXCEPT ![p] = Finish(task[p], "disconnected", UnknownUuid)]
    /\ UNCHANGED <<indexCreated, vectorDim, clients, inits, engineVars, embVars, nextUuid,
                   now, calls, disconnects, pure, peer, faults>>

\* --------------------------------------------------------------- Embeddings
\* await createEmbeddingProvider(...) settles; on success this.provider is set
\* and the test embedding is requested
ProviderCreated ==
    /\ embInit = "creating"
    /\ \/ /\ provider' = TRUE
          /\ embInit' = "testing"
          /\ UNCHANGED faults
       \/ /\ faults < MaxFaults
          /\ faults' = faults + 1
          /\ embInit' = "rejected"
          /\ UNCHANGED provider
    /\ UNCHANGED <<dbVars, engineVars, createCalls, dimCalls, providerDim, nextUuid, now,
                   task, calls, disconnects, pure, peer>>

\* setVectorDim(dim), called by the onDimensionKnown callback of register()
setVectorDim(dim) == vectorDim' = dim

\* await this.provider.embedQuery("test") settles
TestEmbedded ==
    /\ embInit = "testing"
    /\ \/ /\ setVectorDim(providerDim)
          /\ dimCalls' = dimCalls + 1
          /\ embInit' = "resolved"
          /\ UNCHANGED faults
       \/ /\ faults < MaxFaults
          /\ faults' = faults + 1
          /\ embInit' = "rejected"
          /\ UNCHANGED <<vectorDim, dimCalls>>
    /\ UNCHANGED <<client, initPromise, indexCreated, clients, inits, engineVars, provider,
                   createCalls, providerDim, nextUuid, now, task, calls, disconnects, pure, peer>>

\* embed(): await this.ensureInitialized() on the pending initPromise settles
EmbedWait(p) ==
    /\ task[p].pc = "embwait"
    /\ embInit \in {"resolved", "rejected"}
    /\ task' = [task EXCEPT ![p] =
                  IF embInit = "resolved"
                  THEN [task[p] EXCEPT !.pc = "embquery"]
                  ELSE Throw(task[p], "embedding-init-rejected")]
    /\ UNCHANGED <<dbVars, engineVars, embVars, nextUuid, now, calls, disconnects, pure, peer,
                   faults>>

\* embed(): this.provider.embedQuery(text) settles
EmbedQueryDone(p) ==
    /\ task[p].pc = "embquery"
    /\ \/ /\ Settle(p, EmbedResolved(task[p], Vector(task[p].text, providerDim)), task)
          /\ UNCHANGED faults
       \/ /\ faults < MaxFaults
          /\ faults' = faults + 1
          /\ Settle(p, Throw(task[p], "embed-failed"), task)
    /\ UNCHANGED <<indexCreated, vectorDim, engineVars, provider, dimCalls, providerDim, now,
                   calls, disconnects, pure, peer>>

\* -------------------------------------------------------------------- calls
\* agent_end: the messages of a turn of Turns that are kept in textsWithRole,
\* those of role user or assistant.
RECURSIVE ofUserOrAssistant(_)
ofUserOrAssistant(msgs) ==
    IF msgs = <<>> THEN <<>>
    ELSE IF Head(msgs).role \in {"user", "assistant"}
         THEN <<Head(msgs)>> \o ofUserOrAssistant(Tail(msgs))
         ELSE ofUserOrAssistant(Tail(msgs))

\* agent_end: textsWithRole.filter((item) => item.text && shouldCapture(item.text))
RECURSIVE toCapture(_)
toCapture(items) ==
    IF items = <<>> THEN <<>>
    ELSE IF Head(items).text # "" /\ shouldCapture(Whole(Head(items).text))
         THEN <<Head(items)>> \o toCapture(Tail(items))
         ELSE toCapture(Tail(items))

Slice(s, n) == IF Len(s) <= n THEN s ELSE SubSeq(s, 1, n)

\* A call begins on a slot whose last call has returned: the lowest one, the
\* slots being alike.  The slot keeps the result of its last call until then.
CanStart(p) ==
    /\ ~Running(p)
    /\ calls < MaxCalls
    /\ \A q \in Procs : q < p => Running(q)

NewTask(p, kind) ==
    [IdleTask EXCEPT !.kind = kind, !.t0 = now,
                     !.solo = \A q \in Procs \ {p} : ~Running(q),
                     !.s0 = [client |-> client, initPromise |-> initPromise,
                             clients |-> Len(clients), faults |-> faults,
                             disconnects |-> disconnects]]

\* Every call in flight has company from now on.
Company(p) ==
    [q \in Procs |-> IF q # p /\ Running(q) THEN [task[q] EXCEPT !.solo = FALSE] ELSE task[q]]

Begin(p, tk) ==
    /\ Settle(p, tk, Company(p))
    /\ calls' = calls + 1
    /\ now' = now + 1
    /\ UNCHANGED <<indexCreated, vectorDim, engineVars, provider, dimCalls, providerDim,
                   disconnects, pure, peer, faults>>

\* memory_store.execute
StartMemoryStore(p) ==
    /\ CanStart(p)
    /\ \E t \in StoreTexts : Begin(p, CallEmbed(NewTask(p, "memory_store"), t, "user"))

\* the agent_end hook
StartCapture(p) ==
    /\ CanStart(p)
    /\ \E ev \in Turns :
         Begin(p, IF ~ev.success \/ Len(ev.messages) = 0
                  THEN Finish(NewTask(p, "capture"), "ok", UnknownUuid)
                  ELSE NextItem(NewTask(p, "capture"),
                                Slice(toCapture(ofUserOrAssistant(ev.messages)), CaptureCap)))

\* CLI list / stats: db.count()
StartCount(p) ==
    /\ CanStart(p)
    /\ Begin(p, CallDb(NewTask(p, "count"), "count"))

\* CLI delete and memory_forget with a memoryId: db.delete(id)
StartDelete(p) ==
    /\ CanStart(p)
    /\ \E id \in {Uuid(n) : n \in 1..(nextUuid - 1)} \cup {UnknownUuid, NotAUuid} :
         Begin(p, CallDb([NewTask(p, "delete") EXCEPT !.id = id], "delete"))

\* memory_recall in text mode: db.textSearch(query, limit)
StartTextSearch(p) ==
    /\ CanStart(p)
    /\ Begin(p, CallDb([NewTask(p, "textSearch") EXCEPT !.text = "dark", !.limit = 5],
                       "textSearch"))

\* the service's stop: db.disconnect(), up to await this.client.quit()
Disconnect(p) ==
    /\ IF client # 0 /\ isOpen(client)
       THEN /\ clients' = [clients EXCEPT ![client] =
                             IF @ = "connecting" THEN "aborted" ELSE "quit"]
            /\ task' = [Company(p) EXCEPT ![p] =
                          [NewTask(p, "disconnect") EXCEPT !.pc = "quitting"]]
            /\ UNCHANGED <<client, initPromise>>
       ELSE /\ client' = 0
            /\ initPromise' = 0
            /\ task' = [Company(p) EXCEPT ![p] =
                          Finish(NewTask(p, "disconnect"), "disconnected", UnknownUuid)]
            /\ UNCHANGED clients
    /\ calls' = calls + 1
    /\ disconnects' = disconnects + 1
    /\ now' = now + 1
    /\ UNCHANGED <<pure, peer>>
    /\ UNCHANGED <<indexCreated, vectorDim, inits, engineVars, embVars, nextUuid, faults>>

StartDisconnect(p) ==
    /\ CanStart(p)
    /\ Disconnect(p)

\* ------------------------------------------------------------ specification
\* The plugin as register() leaves it: no client, no provider.
Registered ==
    /\ client = 0
    /\ initPromise = 0
    /\ indexCreated = FALSE
    /\ vectorDim = DEFAULT_VECTOR_DIM
    /\ clients = <<>>
    /\ inits = <<>>
    /\ engineIndex \in InitialIndexes
    /\ docs = <<>>
    /\ createIssued = 0
    /\ nextUuid = 1
    /\ now = 1
    /\ provider = FALSE
    /\ embInit = "none"
    /\ createCalls = 0
    /\ dimCalls = 0
    /\ providerDim \in ProviderDims
    /\ task = [p \in Procs |-> IdleTask]
    /\ calls = 0
    /\ disconnects = 0
    /\ faults = 0
    /\ peer = NoPeer

Init ==
    /\ Registered
    /\ pure = NoCall

Next ==
    \/ \E p \in Procs : StartMemoryStore(p)
    \/ \E p \in Procs : StartCapture(p)
    \/ \E p \in Procs : StartCount(p)
    \/ \E p \in Procs : StartDelete(p)
    \/ \E p \in Procs : StartTextSearch(p)
    \/ \E p \in Procs : StartDisconnect(p)
    \/ \E p \in Procs : EmbedWait(p)
    \/ \E p \in Procs : EmbedQueryDone(p)
    \/ ProviderCreated
    \/ TestEmbedded
    \/ \E p \in Procs : DbWait(p)
    \/ \E p \in Procs : DbCmd(p)
    \/ \E p \in Procs : QuitDone(p)
    \/ \E i \in 1..Len(inits) : ConnectDone(i)
    \/ \E i \in 1..Len(inits) : InfoDone(i)
    \/ \E i \in 1..Len(inits) : CreateDone(i)

Spec == Init /\ [][Next]_vars

\* ---------------------------------------------------------- the recall hook
NoPrompt == ""
ShortPrompt == WH
\* event.prompt of before_agent_start events.
Prompts == {NoPrompt, ShortPrompt, TA, TC}
\* event.prompt.length
PromptLength(t) ==
    IF t = NoPrompt THEN 0 ELSE TextFacts(Whole(t)).len
MinPromptLength == 5

\* The hook without the test of cfg.autoRecall.
BeforeAgentStart_NoGate(tk, prompt, autoRecall) ==
    IF prompt = NoPrompt \/ PromptLength(prompt) < MinPromptLength
    THEN Finish([tk EXCEPT !.text = prompt, !.auto = autoRecall], "guidance", UnknownUuid)
    ELSE CallEmbed([tk EXCEPT !.auto = autoRecall], prompt, "none")

\* the before_agent_start hook, up to await embeddings.embed(event.prompt)
BeforeAgentStart(tk, prompt, autoRecall) ==
    IF prompt = NoPrompt \/ PromptLength(prompt) < MinPromptLength
    THEN Finish([tk EXCEPT !.text = prompt, !.auto = autoRecall], "guidance", UnknownUuid)
    ELSE IF ~autoRecall
    THEN Finish([tk EXCEPT !.text = prompt, !.auto = autoRecall], "guidance", UnknownUuid)
    ELSE CallEmbed([tk EXCEPT !.auto = autoRecall], prompt, "none")

StartRecall(p) ==
    /\ CanStart(p)
    /\ \E prompt \in Prompts, autoRecall \in BOOLEAN :
         Begin(p, BeforeAgentStart(NewTask(p, "recall"), prompt, autoRecall))

\* Turns of the agent with memory_store calls and the stop of the service.
NextRecall ==
    \/ \E p \in Procs : StartRecall(p)
    \/ \E p \in Procs : StartMemoryStore(p)
    \/ \E p \in Procs : StartDisconnect(p)
    \/ \E p \in Procs : EmbedWait(p)
    \/ \E p \in Procs : EmbedQueryDone(p)
    \/ ProviderCreated
    \/ TestEmbedded
    \/ \E p \in Procs : DbWait(p)
    \/ \E p \in Procs : DbCmd(p)
    \/ \E p \in Procs : QuitDone(p)
    \/ \E i \in 1..Len(inits) : ConnectDone(i)
    \/ \E i \in 1..Len(inits) : InfoDone(i)
    \/ \E i \in 1..Len(inits) : CreateDone(i)

SpecRecall == Init /\ [][NextRecall]_vars

\* --------------------------------------------------------- the capture hook
\* Number of turns of the agent in one behaviour of SpecCapture.
MaxTurns == 2

\* A message of event.messages: content is a string or an array of blocks;
\* `object` is false for a message that is null or not an object.
StringMsg(r, t) ==
    [object |-> TRUE, role |-> r, content |-> [kind |-> "string", text |-> t, blocks |-> <<>>]]
ArrayMsg(r, blocks) ==
    [object |-> TRUE, role |-> r, content |-> [kind |-> "array", text |-> "", blocks |-> blocks]]
NullMsg ==
    [object |-> FALSE, role |-> "none", content |-> [kind |-> "none", text |-> "", blocks |-> <<>>]]
TextBlock(t) == [type |-> "text", text |-> t]
ImageBlock == [type |-> "image", text |-> ""]

\* The messages of a long turn; the turns of SpecCapture are made of some of
\* them, in this order.
LongTurn ==
    << NullMsg, StringMsg("system", TD), StringMsg("user", TA), StringMsg("user", TS),
       StringMsg("user", TC), ArrayMsg("assistant", <<TextBlock(TB)>>),
       ArrayMsg("assistant", <<ImageBlock, TextBlock(TD)>>) >>

RECURSIVE Pick(_, _)
\* The messages of s at the positions in keep.
Pick(s, keep) ==
    IF s = <<>> THEN <<>>
    ELSE LET rest == Pick(Tail(s), {i - 1 : i \in keep \ {1}})
         IN IF 1 \in keep THEN <<Head(s)>> \o rest ELSE rest

\* agent_end events: successful turns, and the long turn failed.
CaptureEvents ==
    { [success |-> TRUE, messages |-> Pick(LongTurn, keep)] :
        keep \in SUBSET (1..Len(LongTurn)) }
      \cup { [success |-> FALSE, messages |-> LongTurn] }

\* agent_end: the text blocks of an array content, tagged with the role.
RECURSIVE blockTexts(_, _)
blockTexts(role, blocks) ==
    IF blocks = <<>> THEN <<>>
    ELSE IF Head(blocks).type = "text"
         THEN <<Msg(role, Head(blocks).text)>> \o blockTexts(role, Tail(blocks))
         ELSE blockTexts(role, Tail(blocks))

\* textsWithRole without the test of the role.
RECURSIVE textsWithRole_AnyRole(_)
textsWithRole_AnyRole(messages) ==
    IF messages = <<>> THEN <<>>
    ELSE LET msg == Head(messages)
             rest == textsWithRole_AnyRole(Tail(messages))
         IN IF ~msg.object THEN rest
            ELSE IF msg.content.kind = "string" THEN <<Msg(msg.role, msg.content.text)>> \o rest
            ELSE IF msg.content.kind = "array"
                 THEN blockTexts(msg.role, msg.content.blocks) \o rest
                 ELSE rest

\* agent_end: textsWithRole, the texts of the user and assistant messages
RECURSIVE textsWithRole(_)
textsWithRole(messages) ==
    IF messages = <<>> THEN <<>>
    ELSE LET msg == Head(messages)
             rest == textsWithRole(Tail(messages))
         IN IF ~msg.object THEN rest
            ELSE IF msg.role \notin {"user", "assistant"} THEN rest
            ELSE IF msg.content.kind = "string" THEN <<Msg(msg.role, msg.content.text)>> \o rest
            ELSE IF msg.content.kind = "array"
                 THEN blockTexts(msg.role, msg.content.blocks) \o rest
                 ELSE rest

\* The hook without .slice(0, 3).
AgentEnd_NoCap(tk, ev) ==
    IF ~ev.success \/ Len(ev.messages) = 0
    THEN Finish([tk EXCEPT !.ev = ev], "ok", UnknownUuid)
    ELSE NextItem([tk EXCEPT !.ev = ev], toCapture(textsWithRole(ev.messages)))

\* the agent_end hook, up to the first await of its loop
AgentEnd(tk, ev) ==
    IF ~ev.success \/ Len(ev.messages) = 0
    THEN Finish([tk EXCEPT !.ev = ev], "ok", UnknownUuid)
    ELSE NextItem([tk EXCEPT !.ev = ev],
                  Slice(toCapture(textsWithRole(ev.messages)), CaptureCap))

\* An agent_end event is emitted: the hook is registered when cfg.autoCapture
\* is set, and nothing handles the event otherwise.
EmitAgentEnd ==
    /\ ~Running(1)
    /\ calls < MaxTurns
    /\ \E ev \in CaptureEvents, autoCapture \in BOOLEAN :
         Begin(1, IF autoCapture
                  THEN AgentEnd(NewTask(1, "capture"), ev)
                  ELSE Finish([NewTask(1, "capture") EXCEPT !.auto = FALSE, !.ev = ev],
                              "unhandled", UnknownUuid))

NextCapture ==
    \/ EmitAgentEnd
    \/ EmbedWait(1)
    \/ EmbedQueryDone(1)
    \/ ProviderCreated
    \/ TestEmbedded
    \/ DbWait(1)
    \/ DbCmd(1)
    \/ \E i \in 1..Len(inits) : ConnectDone(i)
    \/ \E i \in 1..Len(inits) : InfoDone(i)
    \/ \E i \in 1..Len(inits) : CreateDone(i)

SpecCapture == Init /\ [][NextCapture]_vars

\* ---------------------------------------------------------- the store API
\* The methods of one RedisMemoryDB called one after the other, each awaited,
\* as the live tests do: the Embeddings instance has been initialised, the
\* store is constructed with the detected dimension on an engine without index.
ApiTexts == {TA, TB, TC}
ApiLimits == {1, 2, 5}
\* minScore 0.1, 0.5, 1.0
ApiMinScores == {20, 100, 200}

ApiCanStart ==
    /\ ~Running(1)
    /\ calls < MaxApiCalls

\* db.store({text, vector: await embeddings.embed(text), importance, category})
ApiStore ==
    /\ ApiCanStart
    /\ \E t \in ApiTexts :
         Begin(1, CallStore([NewTask(1, "store") EXCEPT !.text = t,
                                                       !.vec = Vector(t, providerDim)],
                            [NoEntry EXCEPT !.text = t, !.vector = Vector(t, providerDim),
                                            !.importance = DefaultImportance,
                                            !.category = detectCategory(Whole(t))]))

\* db.search(await embeddings.embed(text), limit, minScore)
ApiSearch ==
    /\ ApiCanStart
    /\ \E t \in ApiTexts, limit \in ApiLimits, minScore \in ApiMinScores :
         Begin(1, CallSearch([NewTask(1, "search") EXCEPT !.text = t],
                             Vector(t, providerDim), limit, minScore))

\* db.textSearch(query, limit)
ApiTextSearch ==
    /\ ApiCanStart
    /\ \E limit \in ApiLimits :
         Begin(1, CallDb([NewTask(1, "textSearch") EXCEPT !.text = "dark", !.limit = limit],
                         "textSearch"))

\* db.delete(id)
ApiDelete ==
    /\ ApiCanStart
    /\ \E id \in {Uuid(n) : n \in 1..(nextUuid - 1)} \cup {UnknownUuid, NotAUuid} :
         Begin(1, CallDb([NewTask(1, "delete") EXCEPT !.id = id], "delete"))

\* db.count()
ApiCount ==
    /\ ApiCanStart
    /\ Begin(1, CallDb(NewTask(1, "count"), "count"))

Constructed ==
    /\ client = 0
    /\ initPromise = 0
    /\ indexCreated = FALSE
    /\ providerDim \in ProviderDims
    /\ vectorDim = providerDim
    /\ clients = <<>>
    /\ inits = <<>>
    /\ engineIndex = NoIndex
    /\ docs = <<>>
    /\ createIssued = 0
    /\ nextUuid = 1
    /\ now = 1
    /\ provider = TRUE
    /\ embInit = "resolved"
    /\ createCalls = 1
    /\ dimCalls = 1
    /\ task = [p \in Procs |-> IdleTask]
    /\ calls = 0
    /\ disconnects = 0
    /\ faults = 0
    /\ peer = NoPeer

InitStore ==
    /\ Constructed
    /\ pure = NoCall

NextStore ==
    \/ ApiStore
    \/ ApiSearch
    \/ ApiTextSearch
    \/ ApiDelete
    \/ ApiCount
    \/ DbWait(1)
    \/ DbCmd(1)
    \/ \E i \in 1..Len(inits) : ConnectDone(i)
    \/ \E i \in 1..Len(inits) : InfoDone(i)
    \/ \E i \in 1..Len(inits) : CreateDone(i)

SpecStore == InitStore /\ [][NextStore]_vars

\* ------------------------------------------- recall over a populated store
\* event.prompt of the turns that follow db.store calls.
ContextPrompts == {TA, TC, TP}

\* the before_agent_start hook, called between calls of the store API
HookRecall ==
    /\ ApiCanStart
    /\ \E prompt \in ContextPrompts, autoRecall \in BOOLEAN :
         Begin(1, BeforeAgentStart(NewTask(1, "recall"), prompt, autoRecall))

NextContext ==
    \/ ApiStore
    \/ HookRecall
    \/ EmbedQueryDone(1)
    \/ DbWait(1)
    \/ DbCmd(1)
    \/ \E i \in 1..Len(inits) : ConnectDone(i)
    \/ \E i \in 1..Len(inits) : InfoDone(i)
    \/ \E i \in 1..Len(inits) : CreateDone(i)

SpecContext == InitStore /\ [][NextContext]_vars

\* ------------------------------------------- turns with recall and capture
\* The context the before_agent_start call tk returned.
ContextOf(tk) ==
    prependContext(IF tk.out = "guidance+memories"
                   THEN [i \in 1..Len(tk.res) |-> tk.res[i].entry]
                   ELSE <<>>)

\* The messages of the turn that follows the before_agent_start call tk: the
\* prompt with the context prepended, the context and the prompt as two
\* blocks, the answer of the assistant, and a remark of the user that quotes
\* the delimiter.  event.messages holds some of them.
TurnMessages(tk) ==
    << StringMsg("user", Join(ContextOf(tk) \o <<WJ, tk.text>>)),
       ArrayMsg("user", <<TextBlock(Join(ContextOf(tk))), TextBlock(tk.text)>>),
       StringMsg("assistant", TB),
       StringMsg("user", Join(<<WR, WM>>)) >>

\* A turn begins: before_agent_start with cfg.autoRecall set.
TurnStart ==
    /\ ~Running(1)
    /\ task[1].kind # "recall"
    /\ calls < 2 * MaxTurns
    /\ \E prompt \in {TA, TC} : Begin(1, BeforeAgentStart(NewTask(1, "recall"), prompt, TRUE))

\* The turn ends: agent_end with cfg.autoCapture set.
TurnEnd ==
    /\ task[1].kind = "recall"
    /\ task[1].pc = "done"
    /\ \E keep \in SUBSET (1..Len(TurnMessages(task[1]))) :
         Begin(1, AgentEnd(NewTask(1, "capture"),
                           [success |-> TRUE, messages |-> Pick(TurnMessages(task[1]), keep)]))

NextTurns ==
    \/ TurnStart
    \/ TurnEnd
    \/ EmbedQueryDone(1)
    \/ DbWait(1)
    \/ DbCmd(1)
    \/ \E i \in 1..Len(inits) : ConnectDone(i)
    \/ \E i \in 1..Len(inits) : InfoDone(i)
    \/ \E i \in 1..Len(inits) : CreateDone(i)

SpecTurns == InitStore /\ [][NextTurns]_vars

\* ------------------------------------------------- two gateways, one Redis
\* The RedisMemoryDB of another gateway, configured with the same index name
\* and the same provider, on a connection of its own: an operation of that
\* gateway calls ensureInitialized(), which runs doInitialize() up to
\* await this.client.connect().
PeerInitialize ==
    /\ peer.stage = "none"
    /\ peer' = [peer EXCEPT !.stage = "connecting"]
    /\ UNCHANGED <<dbVars, engineVars, embVars, nextUuid, now, task, calls, disconnects, pure,
                   faults>>

\* Its connect() resolves: ensureIndex() issues FT.INFO.
PeerConnectDone ==
    /\ peer.stage = "connecting"
    /\ peer' = [peer EXCEPT !.stage = "info"]
    /\ UNCHANGED <<dbVars, engineVars, embVars, nextUuid, now, task, calls, disconnects, pure,
                   faults>>

\* Its ft.info settles: the index is there, or ft.create is issued.
PeerInfoDone ==
    /\ peer.stage = "info"
    /\ IF engineIndex # NoIndex
       THEN /\ peer' = [stage |-> "resolved", indexCreated |-> TRUE]
            /\ UNCHANGED createIssued
       ELSE /\ peer' = [peer EXCEPT !.stage = "creating"]
            /\ createIssued' = createIssued + 1
    /\ UNCHANGED <<dbVars, engineIndex, docs, embVars, nextUuid, now, task, calls, disconnects,
                   pure, faults>>

\* Its ft.create settles: the engine creates the index, or rejects the command
\* because the index exists and ensureIndex() throws createErr.
PeerCreateDone ==
    /\ peer.stage = "creating"
    /\ IF engineIndex = NoIndex
       THEN /\ engineIndex' = providerDim
            /\ peer' = [stage |-> "resolved", indexCreated |-> TRUE]
       ELSE /\ peer' = [peer EXCEPT !.stage = "rejected"]
            /\ UNCHANGED engineIndex
    /\ UNCHANGED <<dbVars, docs, createIssued, embVars, nextUuid, now, task, calls, disconnects,
                   pure, faults>>

\* The store API of this gateway beside the initialization of the other.
NextGateways ==
    \/ ApiStore
    \/ ApiCount
    \/ DbWait(1)
    \/ DbCmd(1)
    \/ \E i \in 1..Len(inits) : ConnectDone(i)
    \/ \E i \in 1..Len(inits) : InfoDone(i)
    \/ \E i \in 1..Len(inits) : CreateDone(i)
    \/ PeerInitialize
    \/ PeerConnectDone
    \/ PeerInfoDone
    \/ PeerCreateDone

SpecGateways == InitStore /\ [][NextGateways]_vars

\* ------------------------------------------------ collections on one Redis
\* store() of a RedisMemoryDB constructed with another keyPrefix and another
\* indexName: JSON.SET `${keyPrefix}:${id}` $ entry.
PeerStore ==
    /\ Cardinality({k \in DOMAIN docs : k[1] # KeyPrefix}) < MaxPeerDocs
    /\ \E p \in OtherPrefixes, t \in {TA, TC} :
         docs' = (<<p, Uuid(nextUuid)>> :>
                    [NoEntry EXCEPT !.id = Uuid(nextUuid), !.text = t,
                                    !.vector = Vector(t, providerDim),
                                    !.importance = DefaultImportance,
                                    !.category = detectCategory(Whole(t)),
                                    !.createdAt = now]) @@ docs
    /\ nextUuid' = nextUuid + 1
    /\ UNCHANGED <<dbVars, engineIndex, createIssued, embVars, now, task, calls, disconnects,
                   pure, peer, faults>>

\* The store API of this collection, a bounded number of calls.
CollectionCall ==
    /\ calls < MaxCollectionCalls
    /\ \/ ApiStore
       \/ ApiSearch
       \/ ApiTextSearch
       \/ ApiCount

NextCollections ==
    \/ CollectionCall
    \/ DbWait(1)
    \/ DbCmd(1)
    \/ \E i \in 1..Len(inits) : ConnectDone(i)
    \/ \E i \in 1..Len(inits) : InfoDone(i)
    \/ \E i \in 1..Len(inits) : CreateDone(i)
    \/ PeerStore

SpecCollections == InitStore /\ [][NextCollections]_vars

\* ------------------------------------------------------ the score of a hit
\* Largest distance, in hundredths, an engine reply is taken to hold.
MaxDistance == 204
Distances == 0..MaxDistance

\* data.score of a returned document: a number, its decimal string, or absent.
RawScores ==
    [type : {"number", "string"}, v : Distances] \cup {[type |-> "undefined", v |-> 0]}

\* Two documents of an engine reply are converted.
InitScore ==
    /\ Constructed
    /\ \E a, b \in RawScores : pure = [fn |-> "reply", arg |-> <<a, b>>, ret |-> <<>>]

ConvertScores ==
    /\ pure.fn = "reply"
    /\ pure' = [fn |-> "score", arg |-> pure.arg,
                ret |-> <<ScoreOfRaw(pure.arg[1]), ScoreOfRaw(pure.arg[2])>>]
    /\ UNCHANGED progVars

NextScore == ConvertScores

SpecScore == InitScore /\ [][NextScore]_vars

\* ------------------------------------------------------------ hybrid search
\* Number of memories the two searches of a hybrid search choose from.
MaxIds == 4
HybridIds == 1..MaxIds
HybridLimits == {1, 2, 3}
\* Scores 0.1, 0.3, 0.5, 0.8, 1.0 of vector hits.
HybridScores == {20, 60, 100, 160, 200}

\* A result of one of the two searches: `via` tells the objects of the vector
\* search from those of the text search.
Hit(n, via, score) == [entry |-> [id |-> Uuid(n), via |-> via], score |-> score]

\* What db.search(vector, limit, minScore) can return: at most limit distinct
\* entries of score >= minScore, best first.
VectorLists(limit, minScore) ==
    UNION { { r \in [1..n -> {Hit(i, "vector", sc) : i \in HybridIds,
                                                     sc \in {x \in HybridScores : x >= minScore}}] :
                \A i, j \in 1..n : i < j =>
                    r[i].entry.id # r[j].entry.id /\ r[i].score >= r[j].score }
            : n \in 0..limit }

\* What db.textSearch(query, limit) can return: at most limit distinct
\* entries, each of score 1.0.
TextLists(limit) ==
    UNION { { r \in [1..n -> {Hit(i, "text", TextScore) : i \in HybridIds}] :
                \A i, j \in 1..n : i < j => r[i].entry.id # r[j].entry.id }
            : n \in 0..limit }

\* [...].toSorted((a, b) => b.score - a.score): by descending score, elements
\* of equal score in the order they had.
RECURSIVE toSorted(_)
toSorted(s) ==
    IF s = <<>> THEN <<>>
    ELSE LET x == Head(s)
             rest == toSorted(Tail(s))
             Above(y) == y.score > x.score
             NotAbove(y) == y.score <= x.score
         IN SelectSeq(rest, Above) \o <<x>> \o SelectSeq(rest, NotAbove)

\* { ...r, score: r.score * 0.8 }
Penalised(r) == [r EXCEPT !.score = (r.score * 8) \div 10]

\* The merge with seen.set(...) for every text result, found before or not.
seenValues_TextOverwrites(vectorResults, textResults) ==
    LET Ids2 == {textResults[i].entry.id : i \in 1..Len(textResults)}
        Kept(r) == r.entry.id \notin Ids2
        Place(r) == IF r.entry.id \in Ids2
                    THEN Penalised(CHOOSE t \in {textResults[i] : i \in 1..Len(textResults)} :
                                     t.entry.id = r.entry.id)
                    ELSE r
        Ids1 == {vectorResults[i].entry.id : i \in 1..Len(vectorResults)}
        New(r) == r.entry.id \notin Ids1
        textOnly == SelectSeq(textResults, New)
    IN [i \in 1..Len(vectorResults) |-> Place(vectorResults[i])]
         \o [i \in 1..Len(textOnly) |-> Penalised(textOnly[i])]

\* [...seen.values()]: the vector results in their order, then the text
\* results whose id the map did not hold, penalised, in their order.
seenValues(vectorResults, textResults) ==
    LET Ids1 == {vectorResults[i].entry.id : i \in 1..Len(vectorResults)}
        New(r) == r.entry.id \notin Ids1
        textOnly == SelectSeq(textResults, New)
    IN vectorResults \o [i \in 1..Len(textOnly) |-> Penalised(textOnly[i])]

\* results = [...seen.values()].toSorted(...).slice(0, limit)
HybridResults(vectorResults, textResults, limit) ==
    Slice(toSorted(seenValues(vectorResults, textResults)), limit)

\* Promise.all([db.search(...), db.textSearch(...)]) has resolved.
InitHybrid ==
    /\ Constructed
    /\ \E limit \in HybridLimits, minScore \in {RecallMinScore, CliMinScore} :
         \E vr \in VectorLists(limit, minScore), tr \in TextLists(limit) :
           pure = [fn |-> "Promise.all", arg |-> <<vr, tr, limit>>, ret |-> <<>>]

MergeHybrid ==
    /\ pure.fn = "Promise.all"
    /\ pure' = [fn |-> "hybrid", arg |-> pure.arg,
                ret |-> HybridResults(pure.arg[1], pure.arg[2], pure.arg[3])]
    /\ UNCHANGED progVars

NextHybrid == MergeHybrid

SpecHybrid == InitHybrid /\ [][NextHybrid]_vars

\* ------------------------------------------------------- the capture filter
\* Number of pieces of the longest text given to the filter.
MaxPieces == 3
Pieces == {TA, TC, WD, WF, WR, WE, WH, WO, WM, WG, WK, WB, WN, W1, W3, WS, WX}
FilterTexts == UNION {[1..n -> Pieces] : n \in 0..MaxPieces}

InitFilter ==
    /\ Constructed
    /\ \E ws \in FilterTexts : pure = [fn |-> "text", arg |-> ws, ret |-> <<>>]

FilterText ==
    /\ pure.fn = "text"
    /\ pure' = [fn |-> "shouldCapture", arg |-> pure.arg, ret |-> shouldCapture(pure.arg)]
    /\ UNCHANGED progVars

CategoriseText ==
    /\ pure.fn = "text"
    /\ pure' = [fn |-> "detectCategory", arg |-> pure.arg, ret |-> detectCategory(pure.arg)]
    /\ UNCHANGED progVars

NextFilter ==
    \/ FilterText
    \/ CategoriseText

SpecFilter == InitFilter /\ [][NextFilter]_vars

\* ---------------------------------------------------------------- the tools
\* Number of tool calls and stops of the service in one behaviour of SpecTools.
MaxToolCalls == 3
RecallQueries == {TW, TA}
RecallLimits == {1, 5}
ForgetQueries == {TA, TQ, TR}

\* The agent calls one tool at a time.
ToolCanStart ==
    /\ \A p \in Procs : ~Running(p)
    /\ calls < MaxToolCalls

\* memory_store.execute
StoreTool ==
    /\ ToolCanStart
    /\ \E t \in StoreTexts : Begin(1, CallEmbed(NewTask(1, "memory_store"), t, "user"))

\* memory_recall.execute, up to its first await
MemoryRecall(tk, query, limit, mode) ==
    IF mode = "text"
    THEN CallDb([tk EXCEPT !.text = query, !.limit = limit, !.mode = mode], "textSearch")
    ELSE CallEmbed([tk EXCEPT !.limit = limit, !.mode = mode], query, "none")

RecallTool ==
    /\ ToolCanStart
    /\ \E query \in RecallQueries, limit \in RecallLimits, mode \in {"vector", "text", "hybrid"} :
         Begin(1, MemoryRecall(NewTask(1, "memory_recall"), query, limit, mode))

\* Parameters of memory_forget: a memoryId, a query, both or neither.  The
\* memoryId is one of a stored entry, a well-formed one of no entry, a
\* malformed one, or is not given; "" is the query that is not given.
ForgetParams ==
    [memoryId : {Uuid(n) : n \in 1..(nextUuid - 1)} \cup {UnknownUuid, NotAUuid, NoId},
     query : ForgetQueries \cup {""}]

\* memory_forget testing `if (query)` before `if (memoryId)`.
MemoryForget_QueryFirst(tk, params) ==
    IF params.query # ""
    THEN CallEmbed([tk EXCEPT !.params = params, !.mode = "query"], params.query, "none")
    ELSE IF params.memoryId # NoId
    THEN CallDb([tk EXCEPT !.params = params, !.id = params.memoryId, !.mode = "id"], "delete")
    ELSE Finish([tk EXCEPT !.params = params, !.mode = "none"], "missing_param", UnknownUuid)

\* memory_forget.execute, up to its first await:
\* if (memoryId) {...}  if (query) {...}  return {error: "missing_param"}
MemoryForget(tk, params) ==
    IF params.memoryId # NoId
    THEN CallDb([tk EXCEPT !.params = params, !.id = params.memoryId, !.mode = "id"], "delete")
    ELSE IF params.query # ""
    THEN CallEmbed([tk EXCEPT !.params = params, !.mode = "query"], params.query, "none")
    ELSE Finish([tk EXCEPT !.params = params, !.mode = "none"], "missing_param", UnknownUuid)

ForgetTool ==
    /\ ToolCanStart
    /\ \E params \in ForgetParams : Begin(1, MemoryForget(NewTask(1, "memory_forget"), params))

\* The service is stopped while a tool other than a hybrid recall may run.
StopService ==
    /\ ~Running(2)
    /\ calls < MaxToolCalls
    /\ ~(Running(1) /\ task[1].mode = "hybrid")
    /\ Disconnect(2)

\* Promise.all of the hybrid recall of task p settles: rejected with the error
\* of textSearch() as soon as that has failed, resolved once both have results.
JoinHybrid(p) ==
    LET q == ChildSlot(p) IN
    /\ task[p].kind = "memory_recall"
    /\ task[p].mode = "hybrid"
    /\ task[p].pc \in {"dbwait", "dbcmd", "join"}
    /\ task[q].kind = "hybrid-text"
    /\ task[q].parent = p
    /\ task[q].t0 = task[p].t0
    /\ task[q].pc = "done"
    /\ IF task[q].out = "error"
       THEN task' = [task EXCEPT ![p] = Throw(task[p], task[q].err), ![q] = IdleTask]
       ELSE /\ task[p].pc = "join"
            /\ task' = [task EXCEPT
                          ![p] = RecallAnswer(task[p], HybridResults(task[p].res, task[q].res,
                                                                     task[p].limit)),
                          ![q] = IdleTask]
    /\ UNCHANGED <<dbVars, engineVars, embVars, nextUuid, now, calls, disconnects, pure, peer,
                   faults>>

NextTools ==
    \/ StoreTool
    \/ RecallTool
    \/ ForgetTool
    \/ StopService
    \/ JoinHybrid(1)
    \/ EmbedWait(1)
    \/ EmbedQueryDone(1)
    \/ ProviderCreated
    \/ TestEmbedded
    \/ \E p \in Procs : DbWait(p)
    \/ \E p \in Procs : DbCmd(p)
    \/ QuitDone(2)
    \/ \E i \in 1..Len(inits) : ConnectDone(i)
    \/ \E i \in 1..Len(inits) : InfoDone(i)
    \/ \E i \in 1..Len(inits) : CreateDone(i)

SpecTools == Init /\ [][NextTools]_vars

\* ------------------------------------------------- one write path at a time
\* Number of calls in one behaviour of SpecSequential.
MaxSequentialCalls == 3

\* A turn whose first user and assistant messages are near-duplicates of one
\* another.
ShortTurn == <<StringMsg("user", TA), ArrayMsg("assistant", <<TextBlock(TB)>>),
               StringMsg("user", TC), StringMsg("user", TD)>>

\* agent_end with cfg.autoCapture set, for a successful turn.
CaptureTurn ==
    /\ ~Running(1)
    /\ \E keep \in SUBSET (1..Len(ShortTurn)) :
         Begin(1, AgentEnd(NewTask(1, "capture"),
                           [success |-> TRUE, messages |-> Pick(ShortTurn, keep)]))

\* memory_store, the capture hook, memory_forget and delete, each called when
\* the call before it has returned.
SequentialCall ==
    /\ calls < MaxSequentialCalls
    /\ \/ StoreTool
       \/ CaptureTurn
       \/ ForgetTool
       \/ ApiDelete

NextSequential ==
    \/ SequentialCall
    \/ EmbedWait(1)
    \/ EmbedQueryDone(1)
    \/ ProviderCreated
    \/ TestEmbedded
    \/ DbWait(1)
    \/ DbCmd(1)
    \/ \E i \in 1..Len(inits) : ConnectDone(i)
    \/ \E i \in 1..Len(inits) : InfoDone(i)
    \/ \E i \in 1..Len(inits) : CreateDone(i)

SpecSequential == Init /\ [][NextSequential]_vars

\* ------------------------------------------------ the hooks, each I/O ending
\* Number of hook invocations in one behaviour of SpecHooks.
MaxHookCalls == 2

\* before_agent_start with cfg.autoRecall set.
RecallHook ==
    /\ ~Running(1)
    /\ \E prompt \in {TA, TP} : Begin(1, BeforeAgentStart(NewTask(1, "recall"), prompt, TRUE))

\* The hooks of the turns of an agent, one at a time.
HookCall ==
    /\ calls < MaxHookCalls
    /\ \/ RecallHook
       \/ CaptureTurn

\* An embedding request, the connection or a command of the store ends, with
\* a result or with an error.
IoCompletes ==
    \/ EmbedQueryDone(1)
    \/ DbWait(1)
    \/ DbCmd(1)
    \/ \E i \in 1..Len(inits) : ConnectDone(i)
    \/ \E i \in 1..Len(inits) : InfoDone(i)
    \/ \E i \in 1..Len(inits) : CreateDone(i)

NextHooks ==
    \/ HookCall
    \/ EmbedQueryDone(1)
    \/ DbWait(1)
    \/ DbCmd(1)
    \/ \E i \in 1..Len(inits) : ConnectDone(i)
    \/ \E i \in 1..Len(inits) : InfoDone(i)
    \/ \E i \in 1..Len(inits) : CreateDone(i)

\* Every call that a hook awaits ends: what is pending is answered.
SpecHooks == InitStore /\ [][NextHooks]_vars /\ WF_vars(IoCompletes)

\* -------------------------------------------------------- the configuration
\* Values of the plugin configuration: strings, a number, undefined, objects.
\* v is the value of a string or a number, props the properties of an object.
NoProps == [k \in {} |-> ""]
Str(s) == [type |-> "string", v |-> s, props |-> NoProps]
Port == [type |-> "number", v |-> "6379", props |-> NoProps]
Undefined == [type |-> "undefined", v |-> "", props |-> NoProps]
\* The object with the properties given as pairs <<key, value>>.
Obj(pairs) ==
    [type |-> "object", v |-> "",
     props |-> [k \in {pr[1] : pr \in pairs} |-> (CHOOSE pr \in pairs : pr[1] = k)[2]]]

\* value[k]
Get(value, k) ==
    IF value.type = "object" /\ k \in DOMAIN value.props THEN value.props[k] ELSE Undefined
\* Object.keys(value)
Keys(value) == IF value.type = "object" THEN DOMAIN value.props ELSE {}

\* Strings of the configuration, two of them references to the environment.
PlainUrl == "redis://localhost"
EnvUrl == "${REDIS_URL}"
PlainKey == "test-key"
EnvKey == "${TEST_OPENAI_KEY}"
EnvNames == {"REDIS_URL", "TEST_OPENAI_KEY"}
\* The variable a string refers to, "" when it holds no ${...}.
EnvVarOf(s) ==
    IF s = EnvUrl THEN "REDIS_URL" ELSE IF s = EnvKey THEN "TEST_OPENAI_KEY" ELSE ""
\* process.env[name] of a variable that is set
EnvValue(name) == IF name = "REDIS_URL" THEN "redis://env" ELSE "env-key"

\* resolveEnvVars(value): env is the set of variables set to a non-empty
\* string; throws for a variable that is not.
resolveEnvVars(s, env) ==
    IF EnvVarOf(s) = "" THEN [ok |-> TRUE, v |-> s]
    ELSE IF EnvVarOf(s) \in env THEN [ok |-> TRUE, v |-> EnvValue(EnvVarOf(s))]
    ELSE [ok |-> FALSE, v |-> "Environment variable is not set"]

\* resolveEnvVarsOptional(value)
resolveEnvVarsOptional(s, env) ==
    IF s = "" THEN Undefined
    ELSE IF EnvVarOf(s) = "" THEN Str(s)
    ELSE IF EnvVarOf(s) \in env THEN Str(EnvValue(EnvVarOf(s)))
    ELSE Str("")

\* assertAllowedKeys(value, allowed, label) throws
UnknownKeys(value, allowed) == Keys(value) \ allowed

validProviders == {"openai", "gemini", "local", "auto"}
TopKeys == {"redis", "embedding", "indexName", "keyPrefix", "autoCapture", "autoRecall"}
RedisKeys == {"url", "password", "tls"}
EmbeddingKeys == {"provider", "apiKey", "model", "baseUrl", "fallback"}

Rejects(msg) == [ok |-> FALSE, error |-> msg, provider |-> "", apiKey |-> Undefined, url |-> ""]

\* embedding.provider ?? "auto"
ProviderOf(embedding) ==
    IF Get(embedding, "provider") = Undefined THEN "auto" ELSE Get(embedding, "provider").v

\* typeof embedding.apiKey === "string" ? resolveEnvVarsOptional(...) : undefined
ApiKeyOf(embedding, env) ==
    IF Get(embedding, "apiKey").type = "string"
    THEN resolveEnvVarsOptional(Get(embedding, "apiKey").v, env)
    ELSE Undefined

\* !apiKey
Falsy(value) == value = Undefined \/ value = Str("")

\* parse that asks no apiKey of openai and gemini.
parse_NoKeyCheck(value, env) ==
    LET redis == Get(value, "redis")
        embedding == Get(value, "embedding")
    IN IF value.type # "object" THEN Rejects("memory-redis config required")
       ELSE IF UnknownKeys(value, TopKeys) # {}
       THEN Rejects("memory-redis config has unknown keys")
       ELSE IF redis = Undefined \/ Get(redis, "url").type # "string"
       THEN Rejects("redis.url is required")
       ELSE IF UnknownKeys(redis, RedisKeys) # {} THEN Rejects("redis config has unknown keys")
       ELSE IF embedding = Undefined THEN Rejects("embedding config is required")
       ELSE IF UnknownKeys(embedding, EmbeddingKeys) # {}
       THEN Rejects("embedding config has unknown keys")
       ELSE IF ProviderOf(embedding) \notin validProviders
       THEN Rejects("Invalid embedding provider")
       ELSE IF ~resolveEnvVars(Get(redis, "url").v, env).ok
       THEN Rejects(resolveEnvVars(Get(redis, "url").v, env).v)
       ELSE [ok |-> TRUE, error |-> "", provider |-> ProviderOf(embedding),
             apiKey |-> ApiKeyOf(embedding, env),
             url |-> resolveEnvVars(Get(redis, "url").v, env).v]

\* redisMemoryConfigSchema.parse(value): the error thrown, or the provider,
\* apiKey and redis.url of the configuration returned.
parse(value, env) ==
    LET redis == Get(value, "redis")
        embedding == Get(value, "embedding")
    IN IF value.type # "object" THEN Rejects("memory-redis config required")
       ELSE IF UnknownKeys(value, TopKeys) # {}
       THEN Rejects("memory-redis config has unknown keys")
       ELSE IF redis = Undefined \/ Get(redis, "url").type # "string"
       THEN Rejects("redis.url is required")
       ELSE IF UnknownKeys(redis, RedisKeys) # {} THEN Rejects("redis config has unknown keys")
       ELSE IF embedding = Undefined THEN Rejects("embedding config is required")
       ELSE IF UnknownKeys(embedding, EmbeddingKeys) # {}
       THEN Rejects("embedding config has unknown keys")
       ELSE IF ProviderOf(embedding) \notin validProviders
       THEN Rejects("Invalid embedding provider")
       ELSE IF ProviderOf(embedding) \in {"openai", "gemini"} /\ Falsy(ApiKeyOf(embedding, env))
       THEN Rejects("embedding.apiKey is required")
       ELSE IF ~resolveEnvVars(Get(redis, "url").v, env).ok
       THEN Rejects(resolveEnvVars(Get(redis, "url").v, env).v)
       ELSE [ok |-> TRUE, error |-> "", provider |-> ProviderOf(embedding),
             apiKey |-> ApiKeyOf(embedding, env),
             url |-> resolveEnvVars(Get(redis, "url").v, env).v]

\* Configurations given to the plugin.
Optional(k, values) == {{}} \cup {{<<k, x>>} : x \in values}
RedisObjects ==
    {Obj(u \cup x) : u \in Optional("url", {Str(PlainUrl), Str(EnvUrl), Port}),
                     x \in Optional("unknownKey", {Str("value")})}
EmbeddingObjects ==
    {Obj(pv \cup k \cup x) :
       pv \in Optional("provider", {Str(n) : n \in validProviders \cup {"invalid-provider"}}),
       k \in Optional("apiKey", {Str(""), Str(PlainKey), Str(EnvKey)}),
       x \in Optional("unknownKey", {Str("value")})}
PluginConfigs ==
    {Undefined} \cup
    {Obj(r \cup e \cup x) : r \in Optional("redis", RedisObjects),
                            e \in Optional("embedding", EmbeddingObjects),
                            x \in Optional("unknownKey", {Str("value")})}

InitConfig ==
    /\ Registered
    /\ \E value \in PluginConfigs, env \in SUBSET EnvNames :
         pure = [fn |-> "pluginConfig", arg |-> <<value, env>>, ret |-> <<>>]

\* register(api): parse throws, or the plugin is set up with the tools.  The
\* configuration given is kept with the error.
Register ==
    /\ pure.fn = "pluginConfig"
    /\ LET cfg == parse(pure.arg[1], pure.arg[2])
       IN pure' = IF cfg.ok THEN [fn |-> "registered", arg |-> <<>>, ret |-> cfg]
                  ELSE [fn |-> "threw", arg |-> pure.arg, ret |-> cfg]
    /\ UNCHANGED progVars

\* memory_store of the registered plugin
RegisteredStore ==
    /\ pure.fn = "registered"
    /\ StoreTool

NextConfig ==
    \/ Register
    \/ RegisteredStore
    \/ EmbedWait(1)
    \/ EmbedQueryDone(1)
    \/ ProviderCreated
    \/ TestEmbedded
    \/ DbWait(1)
    \/ DbCmd(1)
    \/ \E i \in 1..Len(inits) : ConnectDone(i)
    \/ \E i \in 1..Len(inits) : InfoDone(i)
    \/ \E i \in 1..Len(inits) : CreateDone(i)

SpecConfig == InitConfig /\ [][NextConfig]_vars

\* ------------------------------------------------------------------- claims
\* Task p returns in this step (t0 numbers the calls).
Returns(p) ==
    /\ task'[p].pc = "done"
    /\ task[p].pc # "done" \/ task'[p].t0 # task[p].t0

\* The persisted entries that a duplicate check for text t must find.
NearDuplicates(t) ==
    {k \in DOMAIN docs : ScoreOf(TextDistance(t, docs[k].vector.of)) >= DupMinScore}

\* C1: a memory_store call that runs with no other call in flight and ends
\* without an error reports 'duplicate', with the id of a persisted entry of
\* similarity >= 0.95, and writes nothing when such an entry exists; otherwise it
\* reports 'created' and adds exactly the one entry whose id it reports.  So the
\* same text stored twice in sequence leaves one entry: 'created', then
\* 'duplicate' with the first entry's id.
C1_SequentialStoreTwice ==
    [][\A p \in Procs :
         (Returns(p) /\ task'[p].kind = "memory_store" /\ task'[p].solo
            /\ task'[p].out # "error") =>
           IF NearDuplicates(task'[p].text) # {}
           THEN /\ task'[p].out = "duplicate"
                /\ Key(task'[p].outId) \in NearDuplicates(task'[p].text)
                /\ docs' = docs
           ELSE /\ task'[p].out = "created"
                /\ Key(task'[p].outId) \notin DOMAIN docs
                /\ DOMAIN docs' = DOMAIN docs \cup {Key(task'[p].outId)}
                /\ docs'[Key(task'[p].outId)].text = task'[p].text
                /\ \A k \in DOMAIN docs : docs'[k] = docs[k]]_vars

\* The second of two sequential memory_store calls of one text has returned
\* 'duplicate' with the id of the first call's entry, the only entry persisted.
C1_Witness ==
    \E p \in Procs :
      /\ task[p].kind = "memory_store" /\ task[p].pc = "done" /\ task[p].solo
      /\ task[p].text = TA
      /\ task[p].out = "duplicate"
      /\ task[p].outId = Uuid(1)
      /\ DOMAIN docs = {Key(Uuid(1))}
      /\ docs[Key(Uuid(1))].text = TA
      /\ calls = 2

\* The pending command of task p settles in this step.
CommandSettles(p) ==
    /\ task[p].pc = "dbcmd"
    /\ task'[p] \notin {task[p], [task[p] EXCEPT !.solo = FALSE]}

\* C2: the duplicate check and the write are two separate commands: a writer
\* whose duplicate search found nothing stores its entry when its JSON.SET is
\* answered, whatever was written since its search, so two concurrent writers
\* of near-identical text can both pass the check and both persist.
C2_CheckThenAct ==
    [][\A p \in Procs :
         (CommandSettles(p) /\ task[p].dbop = "store" /\ ~Rejected(task[p].cl)) =>
           /\ task[p].res = <<>>
           /\ Key(task[p].ent.id) \in DOMAIN docs'
           /\ docs'[Key(task[p].ent.id)] = task[p].ent]_vars

\* A memory_store call and a capture hook that ran concurrently have both
\* persisted an entry for the same text.
C2_Witness ==
    \E p, q \in Procs : \E k1, k2 \in DOMAIN docs :
      /\ p # q /\ k1 # k2
      /\ task[p].kind = "memory_store" /\ task[p].pc = "done" /\ task[p].out = "created"
      /\ ~task[p].solo /\ Key(task[p].outId) = k1
      /\ task[q].kind = "capture" /\ task[q].pc = "done" /\ task[q].out = "ok"
      /\ ~task[q].solo /\ task[q].stored = 1 /\ Key(task[q].ent.id) = k2
      /\ k1 \in NearDuplicates(docs[k2].text) /\ k2 \in NearDuplicates(docs[k1].text)

\* Two concurrent memory_store calls of one text have both reported 'created'.
C2_TwoStores ==
    \E p, q \in Procs :
      /\ p # q
      /\ task[p].kind = "memory_store" /\ task[p].out = "created"
      /\ task[q].kind = "memory_store" /\ task[q].out = "created"
      /\ task[p].text = task[q].text /\ task[p].outId # task[q].outId
      /\ {Key(task[p].outId), Key(task[q].outId)} \subseteq DOMAIN docs

\* Two concurrent capture hooks have both stored an entry for one text.
C2_TwoCaptures ==
    \E p, q \in Procs :
      /\ p # q
      /\ task[p].kind = "capture" /\ task[p].stored = 1 /\ task[p].pc = "done"
      /\ task[q].kind = "capture" /\ task[q].stored = 1 /\ task[q].pc = "done"
      /\ task[p].ent.id # task[q].ent.id
      /\ task[p].ent.text = task[q].ent.text
      /\ {Key(task[p].ent.id), Key(task[q].ent.id)} \subseteq DOMAIN docs

\* C3: as long as disconnect() has not been called, store operations (store,
\* search, textSearch, delete, count), however they interleave and whether the
\* connect has succeeded, failed or is still pending, create one client and
\* make one connect attempt; each of them waits on that attempt or has its
\* command on that client.
C3_SingleClient ==
    disconnects = 0 =>
      /\ Len(clients) <= 1
      /\ Len(inits) = Len(clients)
      /\ \A p \in Procs :
           /\ task[p].dbop # "none" => Len(clients) = 1 /\ client = 1 /\ initPromise = 1
           /\ task[p].pc = "dbwait" => task[p].wait = 1
           /\ task[p].pc = "dbcmd" => task[p].cl = 1

\* Two store operations are in flight before the connect has settled: the
\* first awaits the one initialisation, the second has queued its command on
\* the same client.
C3_Witness ==
    \E p, q \in Procs :
      /\ p # q
      /\ disconnects = 0
      /\ clients = <<"connecting">>
      /\ Len(inits) = 1
      /\ task[p].pc = "dbwait" /\ task[p].wait = 1
      /\ task[q].pc = "dbcmd" /\ task[q].cl = 1

\* C4: createEmbeddingProvider is invoked at most once per Embeddings instance,
\* whatever embed() calls are made and however they interleave, also after the
\* initialisation has failed; a call that waits, waits on that one attempt.
C4_ProviderCreatedOnce ==
    /\ createCalls <= 1
    /\ createCalls = 0 <=> embInit = "none"
    /\ \A p \in Procs : task[p].pc = "embwait" => createCalls = 1 /\ embInit # "none"

\* The one attempt has failed before the provider was set: a call that ran
\* beside another call was rejected by it, and so was a later call, started
\* when no other call was in flight (after the failure).
C4_Witness ==
    \E p, q \in Procs :
      /\ p # q
      /\ embInit = "rejected" /\ ~provider
      /\ createCalls = 1
      /\ task[q].pc = "done" /\ task[q].err = "embedding-init-rejected" /\ ~task[q].solo
      /\ task[p].pc = "done" /\ task[p].err = "embedding-init-rejected" /\ task[p].solo
      /\ task[p].t0 > task[q].t0

StoreOps == {"memory_store", "capture", "count", "delete", "textSearch"}

\* Call p began when a disconnect() had returned and nothing had touched the
\* store since: no client, no initialisation handle.
AfterDisconnect(tk) ==
    /\ tk.kind \in StoreOps
    /\ tk.dbop # "none"
    /\ tk.s0.disconnects > 0
    /\ tk.s0.client = 0
    /\ tk.s0.initPromise = 0

Reconnected(p) ==
    /\ Len(clients') = task'[p].s0.clients + 1
    /\ client' = Len(clients')
    /\ initPromise' # 0
    /\ task'[p].err \notin {"TypeError", "client-closed", "no-such-index"}
    /\ task'[p].err = "init-rejected" => faults' > task'[p].s0.faults
    /\ task'[p].err # "init-rejected" => clients'[client'] = "ready"

\* C5: when disconnect() returns the store has no client and no initialisation
\* handle; the next operation, run with no other call in flight, creates one new
\* client, connects it and completes: it ends with a ready client and without a
\* connection error, unless the environment fails its connect or its index
\* creation.
C5_DisconnectResets ==
    [][\A p \in Procs :
         /\ (Returns(p) /\ task'[p].kind = "disconnect") =>
               client' = 0 /\ initPromise' = 0
         /\ (Returns(p) /\ AfterDisconnect(task'[p]) /\ task'[p].solo) =>
               Reconnected(p)]_vars

\* A store operation that began after a disconnect() of a connected store and
\* ran alone has returned without error on a second, ready client.
C5_Witness ==
    \E p \in Procs :
      /\ AfterDisconnect(task[p]) /\ task[p].solo
      /\ task[p].pc = "done" /\ task[p].err = ""
      /\ task[p].out \in {"created", "duplicate", "count", "found", "not-found", "deleted"}
      /\ task[p].s0.clients = 1
      /\ clients = <<"quit", "ready">>
      /\ client = 2 /\ initPromise = 2

\* The step runs ensureIndex of initialisation i from its start (its connect
\* has just succeeded), or resumes it after its ft.info.
EnsureIndexStarts(i) ==
    /\ inits[i].stage = "connecting"
    /\ inits'[i].stage # "connecting"
    /\ clients'[inits[i].cl] = "ready"

InfoSettles(i) ==
    /\ inits[i].stage = "info"
    /\ inits'[i].stage # "info"

C6_FoundInEngine ==
    /\ Len(inits) = 1 /\ inits[1].stage = "resolved"
    /\ indexCreated
    /\ createIssued = 0
    /\ engineIndex # NoIndex
    /\ vectorDim # engineIndex

\* The index in the engine was created by this store (not found there).
IndexCreatedByStore ==
    \E i \in 1..Len(inits) : inits[i].stage = "resolved" /\ inits[i].dim # 0

\* C7: every entry written through the plugin has a vector as long as the
\* dimension with which the store created its index.
C7_VectorLengthIsIndexDim ==
    IndexCreatedByStore =>
      \A k \in DOMAIN docs : docs[k].vector.dim = engineIndex

\* An operation that needs no embedding (count, textSearch, delete) was the
\* first touch of the store and created the index with the default dimension; a
\* memory_store call that ran alone afterwards has written an entry whose vector
\* has the provider's dimension.
C7_CountFirst ==
    \E p \in Procs :
      /\ IndexCreatedByStore
      /\ engineIndex = DEFAULT_VECTOR_DIM
      /\ dimCalls = 1 /\ vectorDim = providerDim
      /\ task[p].kind = "memory_store" /\ task[p].solo /\ task[p].out = "created"
      /\ task[p].t0 = 2
      /\ Key(task[p].outId) \in DOMAIN docs
      /\ docs[Key(task[p].outId)].vector.dim = providerDim
      /\ providerDim # engineIndex

\* Some embed() call has returned a vector.
EmbedReturned == \E p \in Procs : task[p].vec # EmptyVector

\* C8: onDimensionKnown is invoked exactly once per Embeddings instance: never
\* twice, and once in every state in which an embed() call has returned a
\* vector.
C8_DimensionReportedOnce ==
    /\ dimCalls <= 1
    /\ EmbedReturned => dimCalls = 1

\* The test embedding has failed after the provider was set: a later
\* memory_store call, run alone, has got its vector and stored its entry, and
\* the callback has never been invoked.
C8_TestEmbeddingFailed ==
    \E p \in Procs :
      /\ embInit = "rejected" /\ provider
      /\ dimCalls = 0
      /\ task[p].kind = "memory_store" /\ task[p].solo /\ task[p].out = "created"
      /\ task[p].vec # EmptyVector

\* The part of C8 that holds: the callback is never invoked a second time.
C8_AtMostOnce == dimCalls <= 1

Ids == {Uuid(n) : n \in 1..(nextUuid - 1)}

\* The command of store() is pending for task p.
Storing(p) == task[p].pc = "dbcmd" /\ task[p].dbop = "store"

\* C9: store() gives its entry the next fresh id and a createdAt not before the
\* call, and writes it under the key of that id: the id is none that was drawn
\* before (so none persisted before, deleted or not), the write adds a record
\* and overwrites none, and the persisted entries, each under the key of its
\* own id, have pairwise distinct ids.
C9_FreshIdNoOverwrite ==
    [][/\ \A k \in DOMAIN docs : k = Key(docs[k].id) /\ docs[k].id \in Ids
       /\ \A k1, k2 \in DOMAIN docs : k1 # k2 => docs[k1].id # docs[k2].id
       /\ nextUuid' \in {nextUuid, nextUuid + 1}
       /\ \A p \in Procs :
            /\ Storing(p) =>
                  /\ task[p].ent.id \in Ids
                  /\ Key(task[p].ent.id) \notin DOMAIN docs
                  /\ task[p].ent.createdAt >= task[p].ts
                  /\ task[p].ts >= task[p].t0
                  /\ \A q \in Procs \ {p} : Storing(q) => task[q].ent.id # task[p].ent.id
            /\ (Storing(p)' /\ (~Storing(p) \/ task'[p].ent # task[p].ent)) =>
                  /\ task'[p].ent.id = Uuid(nextUuid)
                  /\ nextUuid' = nextUuid + 1
            /\ (CommandSettles(p) /\ Storing(p) /\ ~Rejected(task[p].cl)) =>
                  /\ DOMAIN docs' = DOMAIN docs \cup {Key(task[p].ent.id)}
                  /\ docs'[Key(task[p].ent.id)] = task[p].ent
                  /\ \A k \in DOMAIN docs : docs'[k] = docs[k]]_vars

\* Three entries have been stored and one of them deleted: the two that remain
\* have distinct ids and lie under the keys of their ids.
C9_Witness ==
    /\ nextUuid = 4
    /\ Cardinality(DOMAIN docs) = 2
    /\ \E p \in Procs : task[p].kind = "delete" /\ task[p].out = "deleted"
    /\ \A k \in DOMAIN docs : k = Key(docs[k].id) /\ docs[k].createdAt >= 1

\* C10: persisted entries are immutable: a step changes no field of an entry
\* that is persisted, and an entry leaves the store only when the DEL of a
\* delete(id) of its own id is answered.
C10_EntriesImmutable ==
    [][\A k \in DOMAIN docs :
         IF k \in DOMAIN docs'
         THEN docs'[k] = docs[k]
         ELSE \E p \in Procs :
                /\ CommandSettles(p)
                /\ task[p].dbop = "delete"
                /\ Key(task[p].id) = k]_vars

\* Of two persisted entries one has been deleted by its id; the other is
\* still there, as it was stored.
C10_Witness ==
    \E p \in Procs : \E k \in DOMAIN docs :
      /\ task[p].kind = "delete" /\ task[p].pc = "done" /\ task[p].out = "deleted"
      /\ Key(task[p].outId) \notin DOMAIN docs
      /\ k # Key(task[p].outId)
      /\ docs[k].id # task[p].outId
      /\ docs[k].text \in StoreTexts

ConnectionErrors == {"init-rejected", "client-closed", "TypeError"}

\* C11: a delete(id) that does not fail on the connection rejects a malformed
\* id with the invalid-id error, returns false without error for a well-formed
\* id that matches no persisted entry, both leaving the persisted entries as
\* they are, and for the id of a persisted entry removes exactly that entry and
\* returns true.
C11_DeleteOutcomes ==
    [][\A p \in Procs :
         (Returns(p) /\ task'[p].kind = "delete"
            /\ task'[p].err \notin ConnectionErrors) =>
           IF task'[p].id = NotAUuid
           THEN /\ task'[p].out = "error" /\ task'[p].err = "invalid-id"
                /\ docs' = docs
           ELSE IF Key(task'[p].id) \notin DOMAIN docs
           THEN /\ task'[p].out = "not-found" /\ task'[p].err = ""
                /\ docs' = docs
           ELSE /\ task'[p].out = "deleted" /\ task'[p].err = ""
                /\ DOMAIN docs' = DOMAIN docs \ {Key(task'[p].id)}
                /\ \A k \in DOMAIN docs' : docs'[k] = docs[k]]_vars

\* Of two entries the first has been deleted by its id, and a delete with a
\* malformed id has been rejected; the second entry is still persisted.
C11_Witness ==
    \E p, q \in Procs :
      /\ task[p].kind = "delete" /\ task[p].pc = "done" /\ task[p].out = "deleted"
      /\ task[p].id = Uuid(1)
      /\ task[q].kind = "delete" /\ task[q].pc = "done" /\ task[q].err = "invalid-id"
      /\ task[q].id = NotAUuid
      /\ DOMAIN docs = {Key(Uuid(2))}

\* A delete of a well-formed id that matches no entry has returned false and
\* the persisted entry is still there.
C11_NotFound ==
    \E p \in Procs :
      /\ task[p].kind = "delete" /\ task[p].pc = "done" /\ task[p].out = "not-found"
      /\ task[p].id = UnknownUuid /\ task[p].err = ""
      /\ docs # <<>>

\* C12: delete() with a malformed id fails fast: the call has ended with the
\* invalid-id error as soon as it was made, whatever the state of the
\* connection, and a store that had no client when it was called has created
\* none for it.
C12_MalformedIdFailsFast ==
    \A p \in Procs :
      (task[p].kind = "delete" /\ task[p].id = NotAUuid) =>
        /\ task[p].pc = "done"
        /\ task[p].err = "invalid-id"
        /\ (task[p].solo /\ task[p].s0.client = 0 /\ task[p].s0.initPromise = 0) =>
              Len(clients) = task[p].s0.clients

\* delete() with a malformed id was the first call on the store: a client has
\* been created for it and the call waits for the connection.
C12_ConnectsFirst ==
    \E p \in Procs :
      /\ task[p].kind = "delete" /\ task[p].id = NotAUuid /\ task[p].solo
      /\ task[p].s0.clients = 0
      /\ task[p].pc = "dbwait"
      /\ clients = <<"connecting">>

\* delete() with a malformed id on a store whose connect failed has been
\* rejected with the connection's error, not the invalid-id error.
C12_ConnectionErrorInstead ==
    \E p \in Procs :
      /\ task[p].kind = "delete" /\ task[p].id = NotAUuid /\ task[p].solo
      /\ task[p].pc = "done" /\ task[p].err = "init-rejected"
      /\ clients = <<"failed">>


\* The ids of the entries in a list of results.
ResultIds(res) == {res[i].entry.id : i \in 1..Len(res)}

PersistedIds == {docs[k].id : k \in DOMAIN docs}

C13_SearchAfterDelete ==
    /\ nextUuid = 4
    /\ calls = 5
    /\ task[1].kind = "search"
    /\ task[1].out = "found"
    /\ Len(task[1].res) = 2
    /\ Cardinality(DOMAIN docs) = 2


\* The entry of the last store() that returned.
LastStored == Key(Uuid(nextUuid - 1))

\* search(e.vector, ...) returns now, having been called right after the
\* store() that returned e.
SearchFollowsStore ==
    /\ Returns(1)
    /\ task'[1].kind = "search"
    /\ task'[1].out = "found"
    /\ LastStored \in DOMAIN docs
    /\ docs[LastStored].createdAt >= task'[1].t0 - 1
    /\ docs[LastStored].vector = task'[1].vec

\* C14: the search for e.vector that follows the store() returning e, whatever
\* its limit >= 1 and minScore <= 1.0, returns e as its first result, whatever
\* else is persisted.
C14_StoredEntryFirst ==
    [][SearchFollowsStore =>
         /\ Len(task'[1].res) >= 1
         /\ task'[1].res[1].entry.id = docs[LastStored].id]_vars

\* The search that followed the store of e returned another entry in front of
\* e, or without e: one persisted earlier with the same vector.
C14_OlderTwinFirst ==
    /\ task[1].kind = "search"
    /\ task[1].out = "found"
    /\ LastStored \in DOMAIN docs
    /\ docs[LastStored].createdAt >= task[1].t0 - 1
    /\ docs[LastStored].vector = task[1].vec
    /\ Len(task[1].res) >= 1
    /\ task[1].res[1].entry.id # docs[LastStored].id
    /\ task[1].res[1].score = ScoreOf(0)

\* The same search returns e first when no other persisted entry has e's
\* vector.
C14_FirstUnlessTwin ==
    [][(SearchFollowsStore /\ \A k \in DOMAIN docs \ {LastStored} :
                                DocDistance(task'[1].vec, k) > 0) =>
         /\ Len(task'[1].res) >= 1
         /\ task'[1].res[1].entry.id = docs[LastStored].id]_vars


\* Documents at most as far from v as document k, k apart.
NotFarther(v, k) == {j \in DOMAIN docs \ {k} : DocDistance(v, j) <= DocDistance(v, k)}

\* C15: of every search(vector, limit, minScore) that returns: each result is a
\* persisted entry with its vector emptied and the score of its distance, at
\* least minScore; the results are distinct, nearest first (scores do not
\* increase), at most limit; and a persisted entry of score >= minScore is
\* left out only when limit others are at most as far as it is.
C15_SearchResults ==
    [][(Returns(1) /\ task'[1].kind = "search" /\ task'[1].out = "found") =>
         LET res == task'[1].res
             v == task'[1].vec
             limit == task'[1].limit
             minScore == task'[1].minScore
         IN /\ Len(res) <= limit
            /\ \A i \in 1..Len(res) :
                 /\ res[i].score >= minScore
                 /\ Key(res[i].entry.id) \in DOMAIN docs
                 /\ res[i].entry = [docs[Key(res[i].entry.id)] EXCEPT !.vector = EmptyVector]
                 /\ res[i].entry.vector = EmptyVector
                 /\ res[i].score = DistanceUnit - DocDistance(v, Key(res[i].entry.id))
            /\ \A i, j \in 1..Len(res) : i < j =>
                 /\ res[i].entry.id # res[j].entry.id
                 /\ res[i].score >= res[j].score
            /\ \A k \in DOMAIN docs :
                 (DistanceUnit - DocDistance(v, k) >= minScore
                    /\ docs[k].id \notin ResultIds(res)) =>
                   Cardinality(NotFarther(v, k)) >= limit]_vars

\* Of three persisted entries a search with limit 2 and minScore 1.0 returned
\* the one of score 1.0: the second nearest was dropped for its score, the
\* third by the limit.
C15_Witness ==
    /\ task[1].kind = "search"
    /\ task[1].out = "found"
    /\ task[1].limit = 2
    /\ task[1].minScore = DistanceUnit
    /\ Cardinality(DOMAIN docs) = 3
    /\ Len(task[1].res) = 1
    /\ \E k \in DOMAIN docs : DocDistance(task[1].vec, k) \in 1..(DistanceUnit - 1)

\* A search cut by the limit alone: two results of three entries that all
\* have the score asked for.
C15_CutByLimit ==
    /\ task[1].kind = "search"
    /\ task[1].out = "found"
    /\ task[1].limit = 2
    /\ Cardinality(DOMAIN docs) = 3
    /\ Len(task[1].res) = 2
    /\ \A k \in DOMAIN docs : DistanceUnit - DocDistance(task[1].vec, k) >= task[1].minScore


\* C16: the score of a hit is 1 - distance / 2 (in two-hundredths: DistanceUnit
\* less the distance in hundredths): distance 0 gives 1.0, distance 2 gives 0.0, of
\* two hits the nearer never has the smaller score, and a distance in [0, 2]
\* gives a score in [0, 1].
C16_ScoreOfDistance ==
    pure.fn = "score" =>
      \A i, j \in 1..2 :
        LET d == pure.arg[i].v
            e == pure.arg[j].v
        IN (pure.arg[i].type # "undefined" /\ pure.arg[j].type # "undefined") =>
             /\ pure.ret[i] + d = DistanceUnit
             /\ d = 0 => pure.ret[i] = DistanceUnit
             /\ d = DistanceUnit => pure.ret[i] = 0
             /\ d <= e => pure.ret[i] >= pure.ret[j]
             /\ (0 <= d /\ d <= DistanceUnit) =>
                   (0 <= pure.ret[i] /\ pure.ret[i] <= DistanceUnit)

\* Distance 0 and distance 2 were converted, to 1.0 and 0.0.
C16_Witness ==
    /\ pure.fn = "score"
    /\ pure.arg[1].v = 0
    /\ pure.arg[2].v = DistanceUnit
    /\ pure.arg[1].type = "number"
    /\ pure.arg[2].type = "string"
    /\ pure.ret = <<DistanceUnit, 0>>


\* The ids of the vector results of the hybrid search under evaluation.
VectorIds == ResultIds(pure.arg[1])

\* C17: the list of a hybrid search has every id at most once; an id that the
\* vector search returned carries that search's entry and score, also when the
\* text search returned it too; an id that only the text search returned
\* carries the text search's entry and 1.0 * 0.8; the scores do not increase
\* and the list has at most limit entries.
C17_HybridMerge ==
    pure.fn = "hybrid" =>
      LET vr == pure.arg[1]
          tr == pure.arg[2]
          limit == pure.arg[3]
          res == pure.ret
      IN /\ Len(res) <= limit
         /\ \A i, j \in 1..Len(res) : i < j =>
              res[i].entry.id # res[j].entry.id /\ res[i].score >= res[j].score
         /\ \A i \in 1..Len(res) :
              IF res[i].entry.id \in ResultIds(vr)
              THEN \E k \in 1..Len(vr) : res[i] = vr[k]
              ELSE /\ \E k \in 1..Len(tr) : res[i].entry = tr[k].entry
                   /\ 10 * res[i].score = 8 * TextScore

\* A memory found by both searches is listed once, as the vector search
\* returned it, in front of a memory the text search alone found.
C17_Witness ==
    /\ pure.fn = "hybrid"
    /\ Len(pure.ret) = 2
    /\ pure.ret[1].entry.id \in ResultIds(pure.arg[2])
    /\ pure.ret[1].entry.via = "vector"
    /\ pure.ret[2].entry.via = "text"
    /\ Len(pure.arg[1]) + Len(pure.arg[2]) > pure.arg[3]

\* C18: in the list of a hybrid search every entry that the text search alone
\* found comes after every entry that the vector search returned.
C18_TextOnlyLast ==
    pure.fn = "hybrid" =>
      \A i, j \in 1..Len(pure.ret) :
        (pure.ret[i].entry.id \notin VectorIds /\ pure.ret[j].entry.id \in VectorIds) => j < i

\* A memory the text search alone found is listed in front of one the vector
\* search returned with a score below 0.8.
C18_TextOnlyFirst ==
    /\ pure.fn = "hybrid"
    /\ Len(pure.ret) >= 2
    /\ pure.ret[1].entry.id \notin VectorIds
    /\ pure.ret[2].entry.id \in VectorIds
    /\ 10 * pure.ret[2].score < 8 * TextScore

\* Text-only entries come after the vector results of score 0.8 or more.
C18_BelowStrongMatches ==
    pure.fn = "hybrid" =>
      \A i, j \in 1..Len(pure.ret) :
        (/\ pure.ret[i].entry.id \notin VectorIds
         /\ pure.ret[j].entry.id \in VectorIds
         /\ 10 * pure.ret[j].score >= 8 * TextScore) => j < i


\* Errors of the store operations.
SearchErrors == ConnectionErrors \cup {"no-such-index"}

\* C19: the before_agent_start hook never rejects: whatever the prompt and
\* whatever embed and search do, it returns a context that holds
\* MEMORY_SYSTEM_PROMPT; memories follow it only when the search returned
\* some, and after any error the context is MEMORY_SYSTEM_PROMPT alone.
C19_RecallNeverThrows ==
    \A p \in Procs :
      (task[p].kind = "recall" /\ task[p].pc = "done") =>
        /\ task[p].out \in {"guidance", "guidance+memories"}
        /\ task[p].err # "" => task[p].out = "guidance"
        /\ task[p].out = "guidance+memories" => Len(task[p].res) > 0 /\ task[p].err = ""
        /\ (task[p].text = NoPrompt \/ PromptLength(task[p].text) < MinPromptLength) =>
              task[p].out = "guidance" /\ task[p].err = ""

\* One recall returned memories while the embedding of another failed and was
\* answered with the guidance alone.
C19_Witness ==
    \E p, q \in Procs :
      /\ task[p].kind = "recall" /\ task[p].pc = "done"
      /\ task[p].out = "guidance+memories"
      /\ task[q].kind = "recall" /\ task[q].pc = "done"
      /\ task[q].out = "guidance"
      /\ task[q].err = "embed-failed"

\* A recall whose search failed returned the guidance alone.
C19_SearchFailed ==
    \E p \in Procs :
      /\ task[p].kind = "recall" /\ task[p].pc = "done"
      /\ task[p].out = "guidance"
      /\ task[p].err \in SearchErrors
      /\ task[p].dbop = "search"

\* A recall with a prompt of fewer than five characters returned the guidance.
C19_ShortPrompt ==
    \E p \in Procs :
      /\ task[p].kind = "recall" /\ task[p].pc = "done"
      /\ task[p].text = ShortPrompt
      /\ task[p].out = "guidance"


\* C20: the agent_end hook never rejects: it ends normally or in its catch,
\* which logs the error of the failed embed, duplicate search or store; the
\* step into the catch leaves the persisted entries as they are, and no entry
\* is ever removed but by the DEL of a delete(), so what the hook stored before
\* the failure stays stored.
C20_CaptureNeverThrows ==
    [][/\ \A p \in Procs :
            (Returns(p) /\ task'[p].kind = "capture") =>
              /\ task'[p].out \in {"ok", "caught"}
              /\ task'[p].out = "ok" <=> task'[p].err = ""
              /\ task'[p].out = "caught" => docs' = docs
       /\ \A k \in DOMAIN docs \ DOMAIN docs' :
            \E q \in Procs : /\ task[q].pc = "dbcmd"
                             /\ task[q].dbop = "delete"
                             /\ Key(task[q].id) = k]_vars

\* A capture stored its first text, failed on the second and ended in its
\* catch: the stored entry is persisted.
C20_Witness ==
    \E p \in Procs :
      /\ task[p].kind = "capture" /\ task[p].pc = "done"
      /\ task[p].out = "caught"
      /\ task[p].err = "embed-failed"
      /\ task[p].stored = 1
      /\ Key(task[p].ent.id) \in DOMAIN docs
      /\ docs[Key(task[p].ent.id)] = task[p].ent

\* A capture ended in its catch for a failure of the duplicate search or of
\* the store.
C20_StoreFailed ==
    \E p \in Procs :
      /\ task[p].kind = "capture" /\ task[p].pc = "done"
      /\ task[p].out = "caught"
      /\ task[p].err \in SearchErrors


\* The texts of an event's messages that the capture filter accepts, in the
\* order of the messages.
AcceptedTexts(ev) ==
    LET texts == textsWithRole(ev.messages)
        Accepted(m) == shouldCapture(Whole(m.text))
    IN SelectSeq(texts, Accepted)

\* The entries persisted since the running hook invocation began.
StoredThisTurn == {k \in DOMAIN docs : docs[k].createdAt > task[1].t0}

\* C21: an entry is persisted only by a hook that is registered (autoCapture)
\* for an event marked successful with at least one message; its text is one
\* of the first three texts the capture filter accepted, and one invocation
\* persists at most three entries.
C21_CaptureGateAndCap ==
    [][/\ DOMAIN docs' # DOMAIN docs =>
            /\ task[1].kind = "capture"
            /\ task[1].auto
            /\ task[1].ev.success
            /\ Len(task[1].ev.messages) >= 1
            /\ \A k \in DOMAIN docs' \ DOMAIN docs :
                 \E i \in 1..Len(AcceptedTexts(task[1].ev)) :
                    i <= 3 /\ AcceptedTexts(task[1].ev)[i].text = docs'[k].text
       /\ task'[1].kind = "capture" =>
            LET new == {k \in DOMAIN docs' : docs'[k].createdAt > task'[1].t0}
            IN Cardinality(new) <= 3 /\ task'[1].stored <= 3]_vars

\* A turn with four accepted texts has been handled: the first three were
\* considered (two stored, one a near duplicate) and the fourth was not.
C21_Witness ==
    /\ task[1].kind = "capture"
    /\ task[1].pc = "done"
    /\ task[1].out = "ok"
    /\ Len(AcceptedTexts(task[1].ev)) = 4
    /\ task[1].stored = 2
    /\ \A k \in DOMAIN docs : docs[k].text # AcceptedTexts(task[1].ev)[4].text

\* One invocation persisted three entries.
C21_ThreeStored ==
    /\ task[1].kind = "capture"
    /\ task[1].pc = "done"
    /\ task[1].stored = 3
    /\ Cardinality(StoredThisTurn) = 3

\* Events that the hook leaves alone: no handler, a failed turn, no message.
C21_Unhandled ==
    /\ task[1].kind = "capture"
    /\ task[1].pc = "done"
    /\ ~task[1].auto
    /\ task[1].ev.success
    /\ Len(AcceptedTexts(task[1].ev)) > 0
    /\ docs = <<>>


Tools == {"memory_store", "memory_recall", "memory_forget"}

\* What task p awaits fails in this step: the embedding request, the
\* initialisation of the provider or of the store, or the command (on a closed
\* client, or a search without index).
AwaitedFails(p) ==
    /\ task'[p].pc # task[p].pc
    /\ \/ task[p].pc = "embquery" /\ faults' > faults
       \/ task[p].pc = "embwait" /\ embInit = "rejected"
       \/ task[p].pc = "dbwait" /\ inits[task[p].wait].stage = "rejected"
       \/ task[p].pc = "dbcmd" /\ Rejected(task[p].cl)
       \/ /\ task[p].pc = "dbcmd"
          /\ task[p].dbop \in {"search", "textSearch"}
          /\ engineIndex = NoIndex

\* C22: memory_store, memory_recall and memory_forget reject when the
\* embedding, the search, the store or the delete they await fails (in hybrid
\* mode: either of the two searches), and return a result only when none has
\* failed; a memory_store that failed before its store() has persisted
\* nothing.
C22_ToolsPropagate ==
    [][/\ (task[1].kind \in Tools /\ AwaitedFails(1)) =>
            /\ task'[1].pc = "done"
            /\ task'[1].out = "error"
            /\ task'[1].err # ""
       /\ (task[2].kind = "hybrid-text" /\ AwaitedFails(2) /\ task[1].kind \in Tools) =>
            task'[2].out = "error" /\ task'[2].pc = "done"
       /\ (task[2].kind = "hybrid-text" /\ task[2].out = "error" /\ task[2].t0 = task[1].t0
             /\ task[1].mode = "hybrid" /\ task[1].pc # "done" /\ task'[1].pc = "done") =>
            task'[1].out = "error" /\ task'[1].err # ""
       /\ (Returns(1) /\ task'[1].kind \in Tools) =>
            /\ task'[1].out = "error" <=> task'[1].err # ""
            /\ (task'[1].kind = "memory_store" /\ task'[1].out = "error"
                  /\ task'[1].dbop # "store") =>
                 \A k \in DOMAIN docs' : docs'[k].createdAt <= task'[1].t0]_vars

\* memory_store rejected with the error of its store().
C22_Witness ==
    /\ task[1].kind = "memory_store"
    /\ task[1].pc = "done"
    /\ task[1].out = "error"
    /\ task[1].dbop = "store"
    /\ task[1].err = "client-closed"

\* memory_store rejected with the error of the embedding, entries being
\* persisted, none of them by this call.
C22_EmbedFailed ==
    /\ task[1].kind = "memory_store"
    /\ task[1].pc = "done"
    /\ task[1].out = "error"
    /\ task[1].err = "embed-failed"
    /\ docs # <<>>

\* memory_forget rejected with the error of its delete().
C22_DeleteFailed ==
    /\ task[1].kind = "memory_forget"
    /\ task[1].pc = "done"
    /\ task[1].out = "error"
    /\ task[1].dbop = "delete"
    /\ task[1].mode = "query"

\* A hybrid memory_recall rejected with the error of its text search.
C22_HybridTextFailed ==
    /\ task[1].kind = "memory_recall"
    /\ task[1].mode = "hybrid"
    /\ task[1].pc = "done"
    /\ task[1].out = "error"
    /\ task[1].dbop = "search"
    /\ task[1].err = "no-such-index"
    /\ task[2].kind = "idle"

\* The persisted entries db.search(embedding of t, limit, ForgetMinScore) finds.
ForgetMatches(t) ==
    {docs[k].id : k \in {j \in DOMAIN docs :
                           ScoreOf(TextDistance(t, docs[j].vector.of)) >= ForgetMinScore}}

\* res holds exactly one result, of score above 0.9.
SingleConfident(res) == Len(res) = 1 /\ res[1].score > ForgetAutoScore

\* C23: memory_forget called with a query searches with limit 5 and threshold
\* 0.7.  Whenever the call removes an entry, its search had returned exactly
\* one result of score above 0.9 and the entry removed is that one, nothing
\* else.  A call that ends without an error answers 'deleted' if and only if
\* the search returned exactly one result of score above 0.9, and that entry
\* is then gone; it answers with the candidate list if and only if there were
\* results otherwise, and that nothing was found if and only if there were none.
C23_ForgetByQuery ==
    [][/\ (task[1].kind = "memory_forget" /\ task[1].mode = "query" /\ docs' # docs) =>
            /\ SingleConfident(task[1].res)
            /\ Key(task[1].res[1].entry.id) \in DOMAIN docs
            /\ DOMAIN docs' = DOMAIN docs \ {Key(task[1].res[1].entry.id)}
            /\ \A k \in DOMAIN docs' : docs'[k] = docs[k]
       /\ (Returns(1) /\ task'[1].kind = "memory_forget" /\ task'[1].mode = "query"
             /\ task'[1].out # "error") =>
            LET res == task'[1].res IN
            /\ Len(res) <= ForgetLimit
            /\ Cardinality(ForgetMatches(task'[1].text)) <= ForgetLimit =>
                 ResultIds(res) = ForgetMatches(task'[1].text)
            /\ task'[1].out \in {"deleted", "candidates", "none"}
            /\ task'[1].out = "deleted" <=> SingleConfident(res)
            /\ task'[1].out = "candidates" <=> (Len(res) > 0 /\ ~SingleConfident(res))
            /\ task'[1].out = "none" <=> Len(res) = 0
            /\ task'[1].out = "deleted" =>
                 /\ task'[1].outId = res[1].entry.id
                 /\ res[1].entry.id \in PersistedIds
                 /\ res[1].entry.id \notin {docs'[k].id : k \in DOMAIN docs'}
            /\ task'[1].out # "deleted" => docs' = docs]_vars

\* The single result of score 1.0 was deleted and the other entry was kept.
C23_Witness ==
    /\ task[1].kind = "memory_forget"
    /\ task[1].mode = "query"
    /\ task[1].pc = "done"
    /\ task[1].out = "deleted"
    /\ Len(task[1].res) = 1
    /\ task[1].res[1].entry.id \notin PersistedIds
    /\ Cardinality(PersistedIds) = 1

\* A single result of score exactly 0.9 is returned as a candidate.
C23_SingleAtThreshold ==
    /\ task[1].kind = "memory_forget"
    /\ task[1].mode = "query"
    /\ task[1].pc = "done"
    /\ task[1].out = "candidates"
    /\ Len(task[1].res) = 1
    /\ task[1].res[1].score = ForgetAutoScore
    /\ task[1].res[1].entry.id \in PersistedIds

\* Two results are returned as candidates and both entries are kept.
C23_TwoCandidates ==
    /\ task[1].kind = "memory_forget"
    /\ task[1].mode = "query"
    /\ task[1].pc = "done"
    /\ task[1].out = "candidates"
    /\ Len(task[1].res) = 2
    /\ ResultIds(task[1].res) = PersistedIds

\* Nothing is found, the one persisted entry scoring below 0.7.
C23_BelowThreshold ==
    /\ task[1].kind = "memory_forget"
    /\ task[1].mode = "query"
    /\ task[1].pc = "done"
    /\ task[1].out = "none"
    /\ Cardinality(PersistedIds) = 1

\* The initialisation i has issued ft.create and has been rejected.
CreateFailed(i) == inits[i].stage = "rejected" /\ inits[i].dim # 0

\* C24: an ft.create that is not answered with a new index rejects its
\* initialisation, and nothing is issued again for it: a rejected
\* initialisation stays as it is.  An operation waiting for an initialisation
\* issues no command before that has resolved; when the initialisation is
\* rejected the operation ends with that error in its next step, a step that
\* writes nothing, queries nothing and issues no ft.create.
C24_CreateFailureFatal ==
    [][/\ \A i \in 1..Len(inits) :
            /\ inits[i].stage = "rejected" => inits'[i] = inits[i]
            /\ (inits[i].stage = "creating" /\ inits'[i].stage # "creating") =>
                 IF engineIndex' # engineIndex
                 THEN inits'[i].stage = "resolved" /\ indexCreated'
                 ELSE /\ inits'[i].stage = "rejected"
                      /\ indexCreated' = indexCreated
                      /\ createIssued' = createIssued
                      /\ docs' = docs
       /\ \A p \in Procs :
            (task[p].pc = "dbwait" /\ inits[task[p].wait].stage # "resolved") =>
               /\ task'[p].pc \in {"dbwait", "done"}
               /\ task'[p].pc = "dbwait" => task'[p].wait = task[p].wait
               /\ task'[p].pc = "done" =>
                    /\ inits[task[p].wait].stage = "rejected"
                    /\ task'[p].err = "init-rejected"
                    /\ task'[p].out \in {"error", "caught", "guidance"}
                    /\ task'[p].stored = task[p].stored
                    /\ docs' = docs
                    /\ createIssued' = createIssued
                    /\ inits' = inits]_vars

\* A memory_store has been rejected by the failure of the one ft.create
\* issued, on a client that is connected; nothing is persisted.
C24_Witness ==
    \E p \in Procs :
        /\ task[p].kind = "memory_store"
        /\ task[p].pc = "done"
        /\ task[p].out = "error"
        /\ task[p].err = "init-rejected"
        /\ task[p].wait \in 1..Len(inits)
        /\ CreateFailed(task[p].wait)
        /\ clients[inits[task[p].wait].cl] = "ready"
        /\ createIssued = 1
        /\ docs = <<>>

\* The text under evaluation by the filter, and what its tests observe of it.
FilterFacts == TextFacts(pure.arg)

\* One of the exclusions of shouldCapture applies to the text under evaluation.
Excluded ==
    \/ FilterFacts.len < 10
    \/ FilterFacts.len > 500
    \/ FilterFacts.relmem
    \/ FilterFacts.startsLt /\ FilterFacts.closeTag
    \/ FilterFacts.bold /\ FilterFacts.nlDash
    \/ FilterFacts.emoji > 3

\* C25: shouldCapture(text) is true if and only if no exclusion applies and
\* some pattern of MEMORY_TRIGGERS matches.  An excluded text is rejected
\* whatever patterns match it; the lengths 10 and 500 are not excluded.
C25_ShouldCapture ==
    pure.fn = "shouldCapture" =>
      /\ pure.ret <=> (~Excluded /\ FilterFacts.triggers # {})
      /\ Excluded => ~pure.ret
      /\ (FilterFacts.len \in {10, 500} /\ FilterFacts.triggers # {} /\ ~FilterFacts.relmem
            /\ ~FilterFacts.closeTag /\ ~FilterFacts.bold /\ FilterFacts.emoji <= 3) => pure.ret

\* A text of 500 UTF-16 units with a trigger is accepted.
C25_Witness ==
    /\ pure.fn = "shouldCapture"
    /\ pure.arg = <<WX, TA>>
    /\ FilterFacts.len = 500
    /\ pure.ret

\* The same text with one more unit is rejected.
C25_TooLong ==
    /\ pure.fn = "shouldCapture"
    /\ pure.arg = <<WX, TA, WS>>
    /\ FilterFacts.len = 501
    /\ ~pure.ret

\* A text of 10 units with a trigger is accepted, one of 9 is rejected.
C25_TenUnits ==
    /\ pure.fn = "shouldCapture"
    /\ pure.arg = <<WE, WO>>
    /\ FilterFacts.len = 10
    /\ pure.ret

C25_NineUnits ==
    /\ pure.fn = "shouldCapture"
    /\ pure.arg = <<WE, WH>>
    /\ FilterFacts.len = 9
    /\ ~pure.ret

\* Four emoji reject a text with a trigger, three do not.
C25_FourEmoji ==
    /\ pure.fn = "shouldCapture"
    /\ pure.arg = <<W3, TA, W1>>
    /\ ~pure.ret

C25_ThreeEmoji ==
    /\ pure.fn = "shouldCapture"
    /\ pure.arg = <<W3, TA>>
    /\ pure.ret

\* The recall block, a text in tags and a formatted list are rejected with a
\* trigger in them.
C25_RecallBlock ==
    /\ pure.fn = "shouldCapture"
    /\ pure.arg = <<TA, WM>>
    /\ ~pure.ret

C25_Tagged ==
    /\ pure.fn = "shouldCapture"
    /\ pure.arg = <<WG, TA, WK>>
    /\ ~pure.ret

C25_Formatted ==
    /\ pure.fn = "shouldCapture"
    /\ pure.arg = <<WB, TA, WN>>
    /\ ~pure.ret

\* A closing tag in a text that does not start with '<' excludes nothing.
C25_TagInside ==
    /\ pure.fn = "shouldCapture"
    /\ pure.arg = <<TA, WK>>
    /\ pure.ret

\* No trigger, no capture.
C25_NoTrigger ==
    /\ pure.fn = "shouldCapture"
    /\ pure.arg = <<WF>>
    /\ ~Excluded
    /\ ~pure.ret

Categories == {"preference", "fact", "decision", "entity", "other"}

\* C26: detectCategory answers with the category of the first rule that
\* matches, the rules taken in the order preference, decision, entity, copula
\* ('fact'), and with 'other' when none does; the answer is one of the five
\* categories.
C26_DetectCategory ==
    pure.fn = "detectCategory" =>
      /\ pure.ret \in Categories
      /\ pure.ret = "preference" <=> FilterFacts.pref
      /\ pure.ret = "decision" <=> (FilterFacts.dec /\ ~FilterFacts.pref)
      /\ pure.ret = "entity" <=> (FilterFacts.ent /\ ~FilterFacts.dec /\ ~FilterFacts.pref)
      /\ pure.ret = "fact" <=>
           (FilterFacts.cop /\ ~FilterFacts.ent /\ ~FilterFacts.dec /\ ~FilterFacts.pref)
      /\ pure.ret = "other" <=>
           ~(FilterFacts.cop \/ FilterFacts.ent \/ FilterFacts.dec \/ FilterFacts.pref)

\* 'My email is a@b.com' matches the entity rule and the copula rule: entity.
C26_Witness ==
    /\ pure.fn = "detectCategory"
    /\ pure.arg = <<TC>>
    /\ FilterFacts.ent /\ FilterFacts.cop
    /\ pure.ret = "entity"

\* A text that all four rules match is a preference.
C26_AllRules ==
    /\ pure.fn = "detectCategory"
    /\ pure.arg = <<TC, WD, TA>>
    /\ pure.ret = "preference"

\* A decision with an address and a copula is a decision.
C26_DecisionOverEntity ==
    /\ pure.fn = "detectCategory"
    /\ pure.arg = <<TC, WD>>
    /\ pure.ret = "decision"

C26_Fact ==
    /\ pure.fn = "detectCategory"
    /\ pure.arg = <<WF>>
    /\ pure.ret = "fact"

C26_Other ==
    /\ pure.fn = "detectCategory"
    /\ pure.arg = <<WR>>
    /\ pure.ret = "other"

\* The configuration given to register() and the environment it is parsed in.
GivenConfig == pure.arg[1]
GivenEnv == pure.arg[2]
GivenProvider == Get(Get(GivenConfig, "embedding"), "provider")
GivenApiKey == Get(Get(GivenConfig, "embedding"), "apiKey")

\* The configuration gives no apiKey, or one that is empty once resolved.
WithoutApiKey ==
    \/ GivenApiKey.type # "string"
    \/ GivenApiKey.v = ""
    \/ GivenApiKey.v = EnvKey /\ "TEST_OPENAI_KEY" \notin GivenEnv

\* No client and no embedding provider has been created.
NothingCreated ==
    /\ client = 0
    /\ clients = <<>>
    /\ inits = <<>>
    /\ ~provider
    /\ embInit = "none"
    /\ createCalls = 0

\* C27: register() throws out of the parsing of its configuration, with no
\* client and no provider created then or later, when redis.url or the
\* embedding section is missing, when the configuration, its redis or its
\* embedding object has an unknown key, when the provider is none of openai,
\* gemini, local and auto, and when the provider is openai or gemini and no
\* non-empty apiKey is given.  A configuration with redis.url, provider local
\* or auto, no apiKey and nothing else is accepted.
C27_ConfigFailsFast ==
    [][/\ (pure.fn = "pluginConfig" /\ pure'.fn # "pluginConfig") =>
            LET redis == Get(GivenConfig, "redis")
                embedding == Get(GivenConfig, "embedding")
                threw == pure'.fn = "threw" /\ ~pure'.ret.ok /\ pure'.ret.error # ""
            IN /\ threw \/ (pure'.fn = "registered" /\ pure'.ret.ok)
               /\ NothingCreated'
               /\ Get(redis, "url") = Undefined => threw
               /\ embedding = Undefined => threw
               /\ "unknownKey" \in Keys(GivenConfig) \cup Keys(redis) \cup Keys(embedding) => threw
               /\ (GivenProvider # Undefined
                     /\ GivenProvider.v \notin {"openai", "gemini", "local", "auto"}) => threw
               /\ (GivenProvider.v \in {"openai", "gemini"} /\ WithoutApiKey) => threw
               /\ \A n \in {"local", "auto"} :
                    GivenConfig = Obj({<<"redis", Obj({<<"url", Str(PlainUrl)>>})>>,
                                       <<"embedding", Obj({<<"provider", Str(n)>>})>>}) =>
                      /\ ~threw
                      /\ pure'.ret.provider = n
                      /\ pure'.ret.apiKey = Undefined
       /\ pure.fn = "threw" => UNCHANGED vars
       /\ ~NothingCreated' => pure.fn = "registered"]_vars

\* openai without an apiKey was rejected; nothing was created.
C27_Witness ==
    /\ pure.fn = "threw"
    /\ GivenProvider = Str("openai")
    /\ GivenApiKey = Undefined
    /\ Get(Get(GivenConfig, "redis"), "url") = Str(PlainUrl)
    /\ pure.ret.error = "embedding.apiKey is required"
    /\ NothingCreated

\* gemini with an apiKey taken from a variable that is not set was rejected.
C27_UnsetKey ==
    /\ pure.fn = "threw"
    /\ GivenProvider = Str("gemini")
    /\ GivenApiKey = Str(EnvKey)
    /\ pure.ret.error = "embedding.apiKey is required"

C27_MissingUrl ==
    /\ pure.fn = "threw"
    /\ Get(GivenConfig, "redis") = Obj({})
    /\ GivenProvider = Str("openai")
    /\ GivenApiKey = Str(PlainKey)
    /\ pure.ret.error = "redis.url is required"

C27_MissingEmbedding ==
    /\ pure.fn = "threw"
    /\ Get(Get(GivenConfig, "redis"), "url") = Str(PlainUrl)
    /\ Get(GivenConfig, "embedding") = Undefined
    /\ pure.ret.error = "embedding config is required"

C27_UnknownRedisKey ==
    /\ pure.fn = "threw"
    /\ Keys(Get(GivenConfig, "redis")) = {"url", "unknownKey"}
    /\ pure.ret.error = "redis config has unknown keys"

C27_UnknownEmbeddingKey ==
    /\ pure.fn = "threw"
    /\ Keys(Get(GivenConfig, "embedding")) = {"provider", "unknownKey"}
    /\ pure.ret.error = "embedding config has unknown keys"

C27_UnknownTopKey ==
    /\ pure.fn = "threw"
    /\ Keys(GivenConfig) = {"redis", "embedding", "unknownKey"}
    /\ pure.ret.error = "memory-redis config has unknown keys"

C27_InvalidProvider ==
    /\ pure.fn = "threw"
    /\ GivenProvider = Str("invalid-provider")
    /\ GivenApiKey = Str(PlainKey)
    /\ pure.ret.error = "Invalid embedding provider"

\* local without an apiKey was accepted, and a memory_store has connected.
C27_LocalAccepted ==
    /\ pure.fn = "registered"
    /\ pure.ret.provider = "local"
    /\ pure.ret.apiKey = Undefined
    /\ Len(clients) = 1
    /\ provider

C27_AutoAccepted ==
    /\ pure.fn = "registered"
    /\ pure.ret.provider = "auto"
    /\ pure.ret.apiKey = Undefined
    /\ docs # <<>>

\* The before_agent_start hook is called on slot p in this step.
RecallCalled(p) ==
    /\ ~Running(p)
    /\ task'[p] # task[p]
    /\ task'[p].kind = "recall"

\* C28: a before_agent_start hook called with autoRecall off, without prompt or
\* with a prompt of fewer than 5 characters returns in the step of its call,
\* with MEMORY_SYSTEM_PROMPT alone and no error, and that step neither
\* initialises the embedding provider nor touches the client, the
\* initialisation or the engine: nothing is embedded, connected or searched.
\* Such a call never holds results.
C28_RecallSkipped ==
    [][\A p \in Procs :
         (/\ RecallCalled(p)
          /\ \/ ~task'[p].auto
             \/ task'[p].text = NoPrompt
             \/ PromptLength(task'[p].text) < MinPromptLength) =>
           /\ task'[p].pc = "done"
           /\ task'[p].out = "guidance"
           /\ task'[p].err = ""
           /\ task'[p].res = <<>>
           /\ task'[p].dbop = "none"
           /\ UNCHANGED <<dbVars, engineVars, embVars, nextUuid, faults>>]_vars

\* With autoRecall off the hook returned the guidance alone for a prompt that
\* is persisted as a memory.
C28_Witness ==
    \E p \in Procs :
      /\ task[p].kind = "recall"
      /\ task[p].pc = "done"
      /\ ~task[p].auto
      /\ task[p].text = TA
      /\ task[p].out = "guidance"
      /\ \E k \in DOMAIN docs : docs[k].text = TA
      /\ client # 0
      /\ clients[client] = "ready"
      /\ engineIndex # NoIndex

\* With autoRecall on, a prompt of two characters: the guidance alone, at a
\* time when nothing is connected and no provider exists.
C28_ShortPrompt ==
    \E p \in Procs :
      /\ task[p].kind = "recall"
      /\ task[p].pc = "done"
      /\ task[p].auto
      /\ task[p].text = ShortPrompt
      /\ task[p].out = "guidance"
      /\ clients = <<>>
      /\ embInit = "none"

C28_NoPrompt ==
    \E p \in Procs :
      /\ task[p].kind = "recall"
      /\ task[p].pc = "done"
      /\ task[p].auto
      /\ task[p].text = NoPrompt
      /\ task[p].out = "guidance"

\* The persisted entries a recall of text t can list: score 0.3 or more.
RecallMatches(t) ==
    {docs[k].id : k \in {j \in DOMAIN docs :
                           ScoreOf(TextDistance(t, docs[j].vector.of)) >= AutoRecallMinScore}}

\* C29: a before_agent_start hook that runs its recall and meets no error
\* returns the <relevant-memories> block if and only if its search returned a
\* result.  What it lists are persisted entries of score 0.3 or more, at most
\* 3 of them, the better one first, and all such entries when there are fewer
\* than 3.  No step taken while the hook is called or running changes the
\* persisted entries.
C29_RecallContext ==
    [][/\ (Returns(1) /\ task'[1].kind = "recall" /\ task'[1].auto /\ task'[1].err = ""
             /\ PromptLength(task'[1].text) >= MinPromptLength) =>
            LET res == task'[1].res IN
            /\ task'[1].out = "guidance+memories" <=> Len(res) >= 1
            /\ task'[1].out = "guidance" <=> Len(res) = 0
            /\ Len(res) <= 3
            /\ \A i \in 1..Len(res) : 10 * res[i].score >= 3 * DistanceUnit
            /\ \A i, j \in 1..Len(res) : i < j => res[i].score >= res[j].score
            /\ ResultIds(res) \subseteq RecallMatches(task'[1].text)
            /\ Cardinality(ResultIds(res)) = Len(res)
            /\ Len(res) < 3 => ResultIds(res) = RecallMatches(task'[1].text)
            /\ \A k \in DOMAIN docs :
                 docs[k].id \notin ResultIds(res) =>
                   \A i \in 1..Len(res) :
                     res[i].score >= ScoreOf(TextDistance(task'[1].text, docs[k].vector.of))
       /\ (RecallCalled(1) \/ (task[1].kind = "recall" /\ Running(1))) => docs' = docs]_vars

\* The block lists three of four persisted entries of score 0.3 or more.
C29_Witness ==
    /\ task[1].kind = "recall"
    /\ task[1].pc = "done"
    /\ task[1].out = "guidance+memories"
    /\ Len(task[1].res) = 3
    /\ Cardinality(RecallMatches(task[1].text)) = 4
    /\ task[1].res[1].score > task[1].res[3].score

\* The search returned nothing, the one persisted entry scoring below 0.3:
\* the guidance alone.
C29_NoneRelevant ==
    /\ task[1].kind = "recall"
    /\ task[1].pc = "done"
    /\ task[1].auto
    /\ task[1].text = TP
    /\ task[1].err = ""
    /\ task[1].out = "guidance"
    /\ docs # <<>>

\* The texts of message m: its string content, or its blocks of type text.
MessageTexts(m) ==
    IF m.content.kind = "string" THEN {m.content.text}
    ELSE {m.content.blocks[i].text :
            i \in {j \in 1..Len(m.content.blocks) : m.content.blocks[j].type = "text"}}

\* The user and assistant messages of event ev that hold text t.
Sources(ev, t) ==
    {i \in 1..Len(ev.messages) :
       /\ ev.messages[i].object
       /\ ev.messages[i].role \in {"user", "assistant"}
       /\ t \in MessageTexts(ev.messages[i])}

\* C30: every entry persisted while the agent_end hook runs holds the text of
\* a user or assistant message of the event, a text that shouldCapture
\* accepts, with the role of such a message, importance 0.7, the category
\* detectCategory gives the text and the tag of the provider in use; a text
\* that only messages of other roles hold is not persisted.
C30_CapturedEntries ==
    [][\A k \in DOMAIN docs' \ DOMAIN docs :
         LET e == docs'[k] IN
         /\ task[1].kind = "capture"
         /\ Sources(task[1].ev, e.text) # {}
         /\ \E i \in Sources(task[1].ev, e.text) : e.role = task[1].ev.messages[i].role
         /\ shouldCapture(Whole(e.text))
         /\ 10 * e.importance = 7 * 10
         /\ e.category = detectCategory(Whole(e.text))
         /\ e.category \in Categories
         /\ e.embeddingModel = ProviderTag
         /\ e.vector.of = e.text]_vars

\* A text block of an assistant message and the string of a user message are
\* persisted, each with its role and category.
C30_Witness ==
    /\ task[1].kind = "capture"
    /\ task[1].pc = "done"
    /\ \E j, k \in DOMAIN docs :
         /\ docs[j].role = "assistant"
         /\ docs[j].text = TD
         /\ docs[j].category = "fact"
         /\ docs[j].embeddingModel = ProviderTag
         /\ docs[k].role = "user"
         /\ docs[k].text = TC
         /\ docs[k].category = "entity"
         /\ docs[k].createdAt > task[1].t0
         /\ docs[j].createdAt > task[1].t0

\* The hook has ended a turn whose system message alone holds a text that
\* the filter accepts: the text is not persisted, another one is.
C30_SystemSkipped ==
    /\ task[1].kind = "capture"
    /\ task[1].pc = "done"
    /\ task[1].out = "ok"
    /\ task[1].stored = 1
    /\ StringMsg("system", TD) \in {task[1].ev.messages[i] : i \in 1..Len(task[1].ev.messages)}
    /\ Sources(task[1].ev, TD) = {}
    /\ shouldCapture(Whole(TD))
    /\ \A k \in DOMAIN docs : docs[k].text # TD

\* The text t contains the delimiter of the recalled block.
HasDelimiter(t) == TextFacts(Whole(t)).relmem

\* The text t holds the context of a before_agent_start call.
HasContext(t) == \E i \in 1..Len(Whole(t)) : Whole(t)[i] = WP

\* C31: over turns with recall and capture both enabled, no persisted entry
\* has a text that contains '<relevant-memories>', and none is a message into
\* which the context of the recall hook was prepended.
C31_NoInjectedContextCaptured ==
    \A k \in DOMAIN docs :
        /\ ~HasDelimiter(docs[k].text)
        /\ ~HasContext(docs[k].text)

\* The capture hook has stored an entry of a turn whose messages held the
\* prompt with a context of recalled memories prepended.
C31_Witness ==
    /\ task[1].kind = "capture"
    /\ task[1].pc = "done"
    /\ task[1].out = "ok"
    /\ task[1].stored >= 1
    /\ \E i \in 1..Len(task[1].ev.messages) :
         LET m == task[1].ev.messages[i] IN
         /\ m.content.kind = "string"
         /\ HasDelimiter(m.content.text)
         /\ HasContext(m.content.text)
    /\ \E k \in DOMAIN docs : docs[k].createdAt = task[1].ts

\* The engine executes the data command of the store operation of task p.
CommandExecuted(p) ==
    /\ task[p].pc = "dbcmd"
    /\ Answered(task[p].cl)
    /\ task'[p] # task[p]
    /\ calls' = calls

\* C32: no data command of a store operation reaches the engine unless
\* connect and ensureIndex have both completed successfully on the instance:
\* the instance has found or created its index when the engine executes the
\* command.
C32_CommandsAfterInitialization ==
    [][\A p \in Procs : CommandExecuted(p) => indexCreated]_vars

\* count() arrived while the initialization ran (the client was open): it did
\* not wait, its FT.INFO was executed before FT.CREATE and it was rejected
\* for the missing index; the initialization is still creating the index.
C32_RunsDuringInit ==
    \E p \in Procs :
      /\ task[p].kind = "count" /\ task[p].pc = "done" /\ task[p].err = "no-such-index"
      /\ task[p].s0.initPromise # 0
      /\ inits[task[p].s0.initPromise].stage = "creating"
      /\ inits[task[p].s0.initPromise].cl = task[p].cl
      /\ ~indexCreated

\* count() was called after ensureIndex had failed in FT.CREATE, alone: the
\* client being open, its FT.INFO went to an engine without index and it was
\* rejected for the missing index, not with the failure of the initialization.
C32_RunsAfterFailedInit ==
    \E p \in Procs :
      /\ task[p].kind = "count" /\ task[p].pc = "done" /\ task[p].err = "no-such-index"
      /\ task[p].solo
      /\ task[p].s0.faults = MaxFaults
      /\ task[p].s0.initPromise # 0
      /\ inits[task[p].s0.initPromise].stage = "rejected"
      /\ clients[inits[task[p].s0.initPromise].cl] = "ready"
      /\ ~indexCreated
      /\ engineIndex = NoIndex

\* disconnect() of task p ran while the operation of task q, which had
\* created the client and started the initialization, was in flight; both
\* have returned and nothing else was called.
DisconnectedInFlight(p, q) ==
    /\ calls = 2
    /\ task[p].kind = "disconnect" /\ task[p].pc = "done" /\ ~task[p].solo
    /\ task[q].kind \in {"count", "delete", "textSearch"} /\ task[q].pc = "done"
    /\ task[q].s0.client = 0 /\ task[q].s0.initPromise = 0

\* C33: when disconnect() runs while an initialization started by another
\* operation is in flight, then once both have finished no client is open,
\* this.client and this.initPromise are cleared, and the operation has ended
\* with a result, with the rejection of its malformed id or with a connection
\* error, not with the TypeError of a command on the cleared client.
C33_DisconnectClean ==
    \A p, q \in Procs :
        DisconnectedInFlight(p, q) =>
            /\ \A c \in 1..Len(clients) : ~isOpen(c)
            /\ client = 0
            /\ initPromise = 0
            /\ task[q].err \in {"", "invalid-id", "init-rejected", "client-closed"}

\* count() waited for the initialization it had started; disconnect() was
\* called meanwhile and set this.client to null before count() ran on: it
\* was rejected with the TypeError of `this.client!.ft.info` on null.
C33_UsesClearedClient ==
    \E p, q \in Procs :
        /\ DisconnectedInFlight(p, q)
        /\ task[q].kind = "count"
        /\ task[q].err = "TypeError"
        /\ client = 0
        /\ clients = <<"quit">>
        /\ inits[1].stage = "resolved"

\* The connect() of the instance's initialization has failed: the client is
\* not open and this.initPromise is the rejected promise.
ConnectFailed ==
    /\ client # 0
    /\ clients[client] = "failed"
    /\ initPromise # 0
    /\ inits[initPromise].stage = "rejected"

\* The step calls a method of the store for task p: the call of a CLI command
\* begins, the embedding that memory_store or the capture hook awaited has
\* resolved (db.search follows), or their search has found no duplicate
\* (db.store follows).
EntersStore(p) ==
    \/ /\ calls' = calls + 1
       /\ task'[p].t0 = now
       /\ task'[p].kind \in {"count", "delete", "textSearch"}
    \/ /\ calls' = calls
       /\ faults' = faults
       /\ task[p].kind \in {"memory_store", "capture"}
       /\ task[p].pc = "embquery"
       /\ task'[p].pc # "embquery"
    \/ /\ calls' = calls
       /\ task[p].kind \in {"memory_store", "capture"}
       /\ task[p].pc = "dbcmd"
       /\ task[p].dbop = "search"
       /\ task'[p].dbop = "store"

\* C34: after a failed connect, every operation on the instance rejects with
\* the failure of that initialization and no client is created nor a connect
\* attempted, until disconnect() is called; the first operation after that
\* disconnect() creates one client and makes one attempt.
C34_NoRetryAfterConnectFailure ==
    [][/\ ConnectFailed =>
            /\ Len(clients') = Len(clients)
            /\ Len(inits') = Len(inits)
            /\ \A p \in Procs : EntersStore(p) =>
                   task'[p].pc = "done" /\ task'[p].err = "init-rejected"
       /\ \A p \in Procs :
            (/\ EntersStore(p)
             /\ client = 0 /\ initPromise = 0
             /\ clients # <<>> /\ clients[Len(clients)] = "failed") =>
                /\ Len(clients') = Len(clients) + 1
                /\ Len(inits') = Len(inits) + 1
                /\ client' = Len(clients') /\ initPromise' = Len(inits')]_vars

\* memory_store was the third call, each made when the one before had
\* returned, on an instance whose connect had failed for the first: its
\* db.search was rejected with the failure of the initialization, and the
\* failed client is still the only one.
C34_Witness ==
    /\ calls = 3
    /\ clients = <<"failed">>
    /\ inits = <<[stage |-> "rejected", cl |-> 1, dim |-> 0]>>
    /\ task[1].kind = "memory_store" /\ task[1].pc = "done" /\ task[1].solo
    /\ task[1].err = "init-rejected"
    /\ task[1].vec # EmptyVector
    /\ task[1].s0.clients = 1 /\ task[1].s0.faults = MaxFaults
    /\ task[1].s0.disconnects = 0

\* The first operation after the disconnect() of an instance whose connect had
\* failed waits for the connect of a second client.
C34_FreshAttempt ==
    \E p \in Procs :
      /\ task[p].kind = "count" /\ task[p].pc = "dbwait" /\ task[p].solo
      /\ task[p].s0.disconnects = 1
      /\ clients = <<"failed", "connecting">>
      /\ client = 2 /\ initPromise = 2

\* The first initialization of this gateway's store and that of the other
\* gateway's have both settled, no I/O having failed.
BothInitialized ==
    /\ faults = 0
    /\ Len(inits) = 1
    /\ inits[1].stage \in {"resolved", "rejected"}
    /\ peer.stage \in {"resolved", "rejected"}

\* C35: when the stores of two gateways configured with the same index name
\* initialize on one Redis whose index is absent, both initializations
\* succeed and the index exists: the one whose FT.CREATE comes second reuses
\* the index.
C35_BothGatewaysInitialize ==
    BothInitialized =>
        /\ inits[1].stage = "resolved"
        /\ peer.stage = "resolved"
        /\ indexCreated /\ peer.indexCreated
        /\ engineIndex # NoIndex

\* Both stores found the index absent and issued FT.CREATE; the other
\* gateway's came first, this gateway's was rejected and its db.count() has
\* been rejected with the failure of the initialization.
C35_LoserFails ==
    /\ BothInitialized
    /\ createIssued = 2
    /\ engineIndex = providerDim
    /\ peer.stage = "resolved"
    /\ inits[1].stage = "rejected"
    /\ clients = <<"ready">>
    /\ ~indexCreated
    /\ task[1].kind = "count" /\ task[1].pc = "done" /\ task[1].err = "init-rejected"
    /\ calls = 1

\* The same with the other gateway's FT.CREATE rejected.
C35_PeerFails ==
    /\ BothInitialized
    /\ createIssued = 2
    /\ peer.stage = "rejected"
    /\ inits[1].stage = "resolved"

\* The documents of this collection, and those of the other collections.
OwnKeys == {k \in DOMAIN docs : k[1] = KeyPrefix}
OtherKeys == {k \in DOMAIN docs : k[1] # KeyPrefix}

\* C36: collections are isolated by key prefix: count() of this collection
\* counts its own entries and no other, search() and textSearch() return
\* entries of this collection only, and the index of another collection holds
\* no entry of this one, also when one key prefix is a leading substring of
\* the other.
C36_CollectionsIsolated ==
    [][/\ (Returns(1) /\ task'[1].err = "" /\ task'[1].kind = "count") =>
             task'[1].num = Cardinality(OwnKeys')
       /\ (Returns(1) /\ task'[1].err = "" /\ task'[1].kind \in {"search", "textSearch"}) =>
             \A i \in 1..Len(task'[1].res) : Key(task'[1].res[i].entry.id) \in OwnKeys'
       /\ \A p \in OtherPrefixes : IndexedUnder(p)' \cap OwnKeys' = {}]_vars

\* count() of the collection "openclaw:memory" has answered 1 with nothing
\* stored in it: the entry is the one of the collection "openclaw:memory:test".
C36_CountsOtherCollection ==
    /\ task[1].kind = "count" /\ task[1].pc = "done" /\ task[1].err = ""
    /\ task[1].num = 1
    /\ OwnKeys = {}
    /\ \E k \in OtherKeys : k[1] = "openclaw:memory:test"

\* search() of the collection "openclaw:memory" has returned the entry of the
\* collection "openclaw:memory:test".
C36_SearchReturnsOther ==
    /\ task[1].kind = "search" /\ task[1].pc = "done" /\ task[1].err = ""
    /\ \E i \in 1..Len(task[1].res) :
         /\ Key(task[1].res[i].entry.id) \notin DOMAIN docs
         /\ <<"openclaw:memory:test", task[1].res[i].entry.id>> \in DOMAIN docs

\* textSearch() of the collection "openclaw:memory" has returned it.
C36_TextSearchReturnsOther ==
    /\ task[1].kind = "textSearch" /\ task[1].pc = "done" /\ task[1].err = ""
    /\ \E i \in 1..Len(task[1].res) :
         <<"openclaw:memory:test", task[1].res[i].entry.id>> \in DOMAIN docs

\* The index of the collection "openclaw:mem" holds an entry of the
\* collection "openclaw:memory".
C36_IndexedByShorterPrefix ==
    /\ OwnKeys # {}
    /\ OwnKeys \subseteq IndexedUnder("openclaw:mem")

\* Collections whose prefixes do not continue one another stay apart.
C36_UnrelatedPrefixesIsolated ==
    /\ IndexedUnder("acme:notes") \cap OwnKeys = {}
    /\ \A k \in Indexed : k[1] # "acme:notes"
    /\ IndexedUnder("openclaw:memory:test") \cap OwnKeys = {}

\* C38: a memory_forget call that passes a memoryId takes the id branch
\* whatever its query is: it embeds and searches nothing and calls
\* db.delete(memoryId).  With a well-formed id it answers 'deleted' with that
\* id when delete() returns, whether a record was removed or not; with a
\* malformed id it is rejected and nothing is removed: with the invalid-id
\* error when no I/O has failed and the service has not been stopped, with
\* the invalid-id error or the error of the connection otherwise.  With
\* neither parameter it answers 'missing_param' at once and leaves the store
\* and the embeddings alone.
C38_ForgetById ==
    [][(Returns(1) /\ task'[1].kind = "memory_forget") =>
         LET tk == task'[1] IN
         /\ tk.params.memoryId # NoId =>
              /\ tk.mode = "id" /\ tk.id = tk.params.memoryId
              /\ tk.vec = EmptyVector /\ tk.res = <<>>
              /\ tk.out \in {"deleted", "error"}
              /\ tk.out = "error" => tk.err \in ConnectionErrors \cup {"invalid-id"}
              /\ tk.out = "deleted" => tk.outId = tk.params.memoryId /\ tk.err = ""
              /\ uuidRegexTest(tk.params.memoryId) => tk.err # "invalid-id"
              /\ ~uuidRegexTest(tk.params.memoryId) =>
                    /\ tk.out = "error"
                    /\ docs' = docs
                    /\ (tk.solo /\ faults' = 0 /\ disconnects' = 0) => tk.err = "invalid-id"
         /\ tk.params = NoParams =>
              /\ tk.out = "missing_param" /\ tk.err = ""
              /\ ~Running(1) /\ calls' = calls + 1
              /\ UNCHANGED <<dbVars, engineVars, embVars, nextUuid>>]_vars

\* memory_forget called with the id of a stored entry and a query that matches
\* another text has removed that entry and answered 'deleted'.
C38_Witness ==
    /\ task[1].kind = "memory_forget" /\ task[1].pc = "done"
    /\ task[1].params.memoryId = Uuid(1) /\ task[1].params.query = TQ
    /\ task[1].mode = "id" /\ task[1].out = "deleted" /\ task[1].num = 1
    /\ docs = <<>>

\* It has answered 'deleted' for a well-formed id of no record, with a query.
C38_DeletedNothing ==
    /\ task[1].kind = "memory_forget" /\ task[1].pc = "done"
    /\ task[1].params = [memoryId |-> UnknownUuid, query |-> TA]
    /\ task[1].out = "deleted" /\ task[1].num = 0
    /\ docs # <<>>

\* It has been rejected with the invalid-id error for a malformed id, with a
\* query that matches a stored entry, which is still there.
C38_InvalidId ==
    /\ task[1].kind = "memory_forget" /\ task[1].pc = "done"
    /\ task[1].params = [memoryId |-> NotAUuid, query |-> TA]
    /\ task[1].out = "error" /\ task[1].err = "invalid-id"
    /\ \E k \in DOMAIN docs : docs[k].text = TA

\* It has answered 'missing_param' on a store that has no client.
C38_MissingParam ==
    /\ task[1].kind = "memory_forget" /\ task[1].pc = "done"
    /\ task[1].params = NoParams
    /\ task[1].out = "missing_param"
    /\ client = 0 /\ clients = <<>>

\* The score of the similarity of two persisted entries.
Similarity(k1, k2) == ScoreOf(TextDistance(docs[k1].vector.of, docs[k2].vector.of))

\* C37: with one write path running at a time, after any sequence of
\* memory_store calls, capture hooks, memory_forget calls and deletes, no two
\* persisted entries have a similarity of 0.95 or more.
C37_NoNearDuplicates ==
    \A k1, k2 \in DOMAIN docs : k1 # k2 => Similarity(k1, k2) < DupMinScore

\* memory_store has answered 'duplicate' for a text whose near-duplicate a
\* capture hook had stored, after a delete: two entries are persisted.
C37_Witness ==
    /\ calls = 3
    /\ task[1].kind = "memory_store" /\ task[1].pc = "done" /\ task[1].out = "duplicate"
    /\ task[1].text = TA
    /\ Cardinality(DOMAIN docs) = 2
    /\ \E k \in DOMAIN docs : docs[k].text = TB /\ docs[k].role = "assistant"

\* A capture hook given a text and its near-duplicate has stored the first
\* and the third of its texts.
C37_SameInvocation ==
    /\ task[1].kind = "capture" /\ task[1].pc = "done" /\ task[1].stored = 2
    /\ Len(task[1].ev.messages) = 3
    /\ {docs[k].text : k \in DOMAIN docs} = {TA, TC}

\* The calls a hook invocation may have issued: one embed and one search for
\* before_agent_start; three embeds, three searches and three stores for
\* agent_end, a search after each embed and a store after a search.
WithinBudget(tk) ==
    /\ tk.kind = "recall" =>
         /\ tk.issued.embed <= 1
         /\ tk.issued.search <= tk.issued.embed
         /\ tk.issued.store = 0
    /\ tk.kind = "capture" =>
         /\ tk.issued.embed <= 3
         /\ tk.issued.search <= tk.issued.embed
         /\ tk.issued.store <= tk.issued.search

\* C39: a hook invocation returns when every embed, search and store call it
\* issues ends, with a result or an error; it issues at most one embed and
\* one search (recall), three embeds, three searches and three stores
\* (capture), none of them again after an error; and when it has returned no
\* request, connection or command of its store or embeddings is pending, and
\* nothing changes until the next hook is called.
C39_HooksTerminate ==
    /\ [](WithinBudget(task[1]))
    /\ [](~Running(1) => ~ENABLED IoCompletes)
    /\ [][~Running(1) => calls' = calls + 1 /\ docs' = docs]_vars
    /\ [][task[1].err # "" => task'[1].issued = task[1].issued \/ calls' = calls + 1]_vars
    /\ (Running(1) ~> task[1].pc = "done")

\* A capture hook has returned after three embeds, three searches and three
\* stores.
C39_Witness ==
    /\ task[1].kind = "capture" /\ task[1].pc = "done" /\ task[1].out = "ok"
    /\ task[1].issued = [embed |-> 3, search |-> 3, store |-> 3]
    /\ Cardinality(DOMAIN docs) = 3

\* A recall hook has returned after one embed and one search, memories found.
C39_RecallReturned ==
    /\ task[1].kind = "recall" /\ task[1].pc = "done" /\ task[1].out = "guidance+memories"
    /\ task[1].issued = [embed |-> 1, search |-> 1, store |-> 0]

\* A capture hook has returned after the failure of its third embed, which it
\* has not issued again; the two entries stored before are kept.
C39_StoppedByError ==
    /\ task[1].kind = "capture" /\ task[1].pc = "done" /\ task[1].out = "caught"
    /\ task[1].err = "embed-failed"
    /\ task[1].issued = [embed |-> 3, search |-> 2, store |-> 2]
    /\ Cardinality(DOMAIN docs) = 2

====
